---- MODULE Spec2Model ----
(***************************************************************************)
(* A model of dpdb (starreeze/coredump-debugger): the replay session of    *)
(* interface.py, the guarded manual checkpoint of __init__.py, and the     *)
(* crash interceptor and its install/uninstall of core_dump.py.            *)
(*                                                                         *)
(* The module holds nine state machines over one list of variables.  Each   *)
(* specification runs one of them and pins the variables of the others.    *)
(*   SpecSession  PostMortemDebugger: the command loop over a snapshot     *)
(*   SpecGuard    dump(): processes racing for the dpdb.lock marker        *)
(*   SpecHook     exception_handler / _core_dump_wrapper on one failure    *)
(*   SpecInstall  install_global_handler / uninstall_global_handler        *)
(*   SpecSanitize CoreDumpGenerator._clean_dict on one binding mapping     *)
(*   SpecCapture  create_from_exception / create_from_current_stack on    *)
(*                one call chain                                           *)
(*   SpecWindow   the source window of one frame and its do_frames row     *)
(*   SpecPrompt   cmd.Cmd.onecmd / emptyline and _execute_code step by     *)
(*                step                                                     *)
(*   SpecWorkers  _patched_process_init and the artifacts of crashing      *)
(*                worker processes                                         *)
(* SpecRunner runs the hook machine behind run_program_with_handler        *)
(* (__main__.py).                                                          *)
(***************************************************************************)
EXTENDS Integers, Sequences, FiniteSets, TLC

VARIABLES
    \* ---- replay session (interface.py) ----
    core_dump,            \* the loaded CoreDump: [frames, current_frame_id]
    heap,                 \* contents of the mutable objects the bindings refer to
    heap0,                \* history: heap when the session was opened
    current_frame_index,  \* PostMortemDebugger.current_frame_index
    frame_namespaces,     \* PostMortemDebugger.frame_namespaces
    display_list,         \* PostMortemDebugger._display_list
    sess,                 \* "live" | "closed" | "crashed" (failure left cmdloop)
    report,               \* what the last command printed: "ok" for its normal
                          \* output, else the message
    table,                \* the rows of the stack table the last command printed
    \* ---- guarded manual checkpoint (__init__.py dump) ----
    pc,                   \* per process: where its dump() call stands
    lock_file_exists,     \* os.path.exists(lock_file): the dpdb.lock marker
    dump_one_process_only,\* per process: the flag of its current call
    attempt,              \* per process: dump() calls made so far
    wrote,                \* per process: artifacts save_core_dump completed
    raised,               \* per process: what its current call raised
    overlapped,           \* history: two first calls were in flight together
    \* ---- crash interceptor on one failure (core_dump.py) ----
    exc,                  \* the failure: [cls, msg, tb]
    where,                \* "hook" (sys.excepthook) | "wrapper" (_core_dump_wrapper)
    hpc,                  \* where the interceptor stands
    tb,                   \* create_from_exception: records of the chain still to walk
    frames,               \* create_from_exception: the FrameInfo list so far
    walk_passes,          \* create_from_exception: passes of the while loop made
    built,                \* create_from_exception returned a CoreDump
    saved,                \* artifacts save_core_dump completed
    save_failed,          \* save_core_dump raised
    default_hook_calls,   \* the failures handed to sys.__excepthook__, in order
    propagated,           \* what leaves the interceptor: "none" | "original" | "persistence_failure"
    \* ---- install / uninstall (core_dump.py) ----
    excepthook,               \* sys.excepthook
    process_init,             \* multiprocessing.Process.__init__
    monkey_patch_installed,   \* _monkey_patch_installed
    original_process_init,    \* _original_process_init
    installs,                 \* install_exception_handler calls so far
    pre_hook,                 \* history: sys.excepthook before the last install that acted
    pre_init,                 \* history: Process.__init__ before the last install that acted
    ops,                      \* history: the last two operations on the hook and the constructor
    program_assigned,         \* history: the program itself assigned the hook or the constructor
    created,                  \* the last Process constructed: [target_wraps, init_by]
    \* ---- sanitizer (core_dump.py _clean_dict) ----
    binding_map,          \* the mapping d given to _clean_dict, in iteration order
    cleaned,              \* the mapping _clean_dict returned
    san,                  \* "ready" | "returned" | the class _clean_dict raised
    \* ---- capture of one call chain (core_dump.py) ----
    entry,                \* how the capture was entered
    stack,                \* the activation records of the chain, oldest call first
    current_frame,        \* the record the walk stands at (tb / current_frame), 0: None
    cap_frames,           \* the FrameInfo list so far
    frame_id,             \* the id the next FrameInfo gets
    environ,              \* os.environ as read when the snapshot was built
    snapshot,             \* the CoreDump returned
    artifact,             \* the file save_core_dump wrote
    loaded,               \* the CoreDump load_core_dump returned
    \* ---- the window of one frame (core_dump.py, interface.py do_frames) ----
    all_lines,            \* f.readlines() of the frame's source file
    current_line,         \* the frame's current line
    context,              \* code_context and context_start_line as captured
    code_line,            \* the executing line do_frames shows: <<line>> or <<>>
    wpc,                  \* "read" | "captured" | "listed"
    \* ---- the prompt (cmd.Cmd.onecmd, interface.py _execute_code) ----
    lastcmd,              \* cmd.Cmd.lastcmd: the last non-empty line
    typed,                \* the line read for the command being handled
    ppc,                  \* "prompt" | "eval" | "exec" | "left" (cmdloop ended)
    focus,                \* current_frame_index
    items,                \* len of the list lst in the current frame's namespace
    displayed,            \* _display_list
    before,               \* history: focus, items, displayed when the line was read
    outcome,              \* what the command printed
    \* ---- worker processes (core_dump.py _patched_process_init) ----
    processes,            \* the Process objects constructed, in order
    crash_files           \* the *_crash.pkl files: [file, by] (whose snapshot it holds)

sessVars == <<core_dump, heap, heap0, current_frame_index, frame_namespaces,
              display_list, sess, report, table>>

guardVars == <<pc, lock_file_exists, dump_one_process_only, attempt, wrote,
               raised, overlapped>>

hookVars == <<exc, where, hpc, tb, frames, walk_passes, built, saved, save_failed,
              default_hook_calls, propagated>>

instVars == <<excepthook, process_init, monkey_patch_installed,
              original_process_init, installs, pre_hook, pre_init, ops,
              program_assigned, created>>

sanVars == <<binding_map, cleaned, san>>

capVars == <<entry, stack, current_frame, cap_frames, frame_id, environ, snapshot,
            artifact, loaded>>

winVars == <<all_lines, current_line, context, code_line, wpc>>

promptVars == <<lastcmd, typed, ppc, focus, items, displayed, before, outcome>>

workVars == <<processes, crash_files>>

vars == <<sessVars, guardVars, hookVars, instVars, sanVars, capVars, winVars, promptVars,
          workVars>>

\* what each machine leaves alone
notSess == <<workVars, guardVars, hookVars, instVars, sanVars, capVars, winVars, promptVars>>
notGuard == <<workVars, sessVars, hookVars, instVars, sanVars, capVars, winVars, promptVars>>
notHook == <<workVars, sessVars, guardVars, instVars, sanVars, capVars, winVars, promptVars>>
notInst == <<workVars, sessVars, guardVars, hookVars, sanVars, capVars, winVars, promptVars>>
notSan == <<workVars, sessVars, guardVars, hookVars, instVars, capVars, winVars, promptVars>>
notCap == <<workVars, sessVars, guardVars, hookVars, instVars, sanVars, winVars, promptVars>>
notWin == <<workVars, sessVars, guardVars, hookVars, instVars, sanVars, capVars, promptVars>>
notPrompt == <<workVars, sessVars, guardVars, hookVars, instVars, sanVars, capVars, winVars>>
notWork == <<sessVars, guardVars, hookVars, instVars, sanVars, capVars, winVars, promptVars>>

----------------------------------------------------------------------------
(* Bounds of the model *)

\* frames in the loaded snapshot: 0..MaxFrames
MaxFrames == 2
\* largest |count| given to up/down and largest frame number given to f
MaxCount == 2
\* how far past [-N, N-1] the model follows an escaped frame index
MaxDrift == 1
\* appends followed per captured list
MaxListLen == 1
\* entries followed in the display list
MaxDisplay == 2
\* processes calling dump() into one directory
NumProcs == 2
\* dump() calls followed per process
MaxAttempts == 2
\* records in a failure's propagation chain: 1..MaxChain
MaxChain == 2
\* words in a failure's message: 0..MaxMsgLen
MaxMsgLen == 1
\* install_global_handler calls that act, followed per process
MaxInstalls == 3
\* passes of the chain walk followed beyond the length of the chain
MaxExtraPasses == 1
\* bindings in a mapping given to the sanitizer: 0..MaxBindings
MaxBindings == 2

----------------------------------------------------------------------------
(* Values, dictionaries and Python indexing *)

\* an immutable int, or a reference to a mutable list held in heap
IntVal(n) == <<"int", n>>
RefVal(o) == <<"ref", o>>
Builtins == <<"builtins", 0>>

Objs == {1}

\* what a binding holds: the int, or the contents of the list it refers to
Deref(v, hp) == IF v[1] = "ref" THEN <<"list", hp[v[2]]>> ELSE v

\* dict.update: the keys of both, over winning
DictUpdate(base, over) ==
    [k \in (DOMAIN base) \cup (DOMAIN over) |->
        IF k \in DOMAIN over THEN over[k] ELSE base[k]]

\* d[k] = v
DictSet(d, k, v) == DictUpdate(d, [x \in {k} |-> v])

\* seq[i] of a Python list of length n is defined for -n <= i < n
PyIndexOk(n, i) == i >= -n /\ i < n
\* the 1-based position Python's seq[i] reads
PyIndex(n, i) == IF i >= 0 THEN i + 1 ELSE n + i + 1

----------------------------------------------------------------------------
(* The loaded snapshot *)

\* the bindings a frame of the captured chain holds: every frame of the
\* chain lives in one module, whose module-level list g is also the list
\* the chain passes down the calls as the argument lst
CapturedFrame(i) ==
    [frame_id |-> i,
     locals_dict |-> [k \in {"x", "lst"} |->
                         IF k = "x" THEN IntVal(i) ELSE RefVal(1)],
     globals_dict |-> [k \in {"x", "g"} |->
                         IF k = "x" THEN IntVal(100) ELSE RefVal(1)]]

\* a capture whose focus is len(frames)
captured_dump_focus_past_end(n, kind) ==
    [frames |-> [i \in 1..n |-> CapturedFrame(i - 1)],
     exception_info |-> IF kind = "failure" THEN "ZeroDivisionError" ELSE "None",
     current_frame_id |-> IF kind = "failure" THEN n ELSE 0]

\* CoreDumpGenerator: a failure capture records the failure and focuses
\* the newest frame (0 without frames), a manual one records None and
\* focuses frame 0
CapturedDump(n, kind) ==
    [frames |-> [i \in 1..n |-> CapturedFrame(i - 1)],
     exception_info |-> IF kind = "failure" THEN "ZeroDivisionError" ELSE "None",
     current_frame_id |-> IF kind = "failure" /\ n > 0 THEN n - 1 ELSE 0]

NumFrames == Len(core_dump.frames)

\* PostMortemDebugger.__init__: one namespace per frame, a shallow copy of
\* the module-level bindings updated with the local ones
seed_namespace_globals_win(frame) == DictUpdate(frame.locals_dict, frame.globals_dict)

SeedNamespace(frame) == DictUpdate(frame.globals_dict, frame.locals_dict)

SessionOpen(cd) ==
    /\ core_dump = cd
    /\ current_frame_index = cd.current_frame_id
    /\ frame_namespaces = [i \in 1..Len(cd.frames) |-> SeedNamespace(cd.frames[i])]
    /\ display_list = <<>>
    /\ sess = "live"
    /\ report = "intro"
    /\ table = <<>>

SessInit ==
    /\ heap = [o \in Objs |-> <<>>]
    /\ heap0 = heap
    /\ \E n \in 0..MaxFrames, kind \in {"failure", "manual"} :
          SessionOpen(CapturedDump(n, kind))

----------------------------------------------------------------------------
(* Command arguments *)

NoArg == [t |-> "none", n |-> 0]
BadArg == [t |-> "bad", n |-> 0]
IntArg(n) == [t |-> "int", n |-> n]

\* the argument strings tried for up, down and f: none, a non-number,
\* and the decimal integers in -MaxCount .. MaxFrames + MaxCount
NavArgs == {NoArg, BadArg} \cup {IntArg(n) : n \in (0 - MaxCount)..(MaxFrames + MaxCount)}

\* int(arg) raises ValueError
IsValueError(arg) == arg.t = "bad"

\* the index values the model follows
IndexRange == (0 - (MaxFrames + MaxDrift))..(MaxFrames - 1 + MaxDrift)

\* _show_current_frame: "none" when it prints No current frame, "raise"
\* when frames[index] raises IndexError, else "shown"
ShowCurrentFrame(idx) ==
    IF NumFrames = 0 \/ idx >= NumFrames THEN "none"
    ELSE IF ~PyIndexOk(NumFrames, idx) THEN "raise"
    ELSE "shown"

Live == sess = "live"

\* a command that moved the index to idx and then showed the frame
MoveTo(idx, said) ==
    /\ current_frame_index' = idx
    /\ IF ShowCurrentFrame(idx) = "raise"
          THEN sess' = "crashed" /\ report' = "IndexError"
          ELSE sess' = sess /\ report' = (IF ShowCurrentFrame(idx) = "none" THEN "no_frame" ELSE said)

----------------------------------------------------------------------------
(* Navigation: do_up, do_down, do_f *)

\* do_up(arg): new_index = current - count, refused only when below 0
do_up(arg) ==
    /\ Live
    /\ UNCHANGED notSess
    /\ table' = <<>>
    /\ UNCHANGED <<core_dump, heap, heap0, frame_namespaces, display_list>>
    /\ IF IsValueError(arg)
          THEN report' = "invalid_number" /\ UNCHANGED <<current_frame_index, sess>>
          ELSE LET count == IF arg.t = "none" THEN 1 ELSE arg.n
                   new_index == current_frame_index - count
               IN  /\ (new_index >= 0) => (new_index \in IndexRange)
                   /\ IF new_index < 0
                         THEN report' = "oldest_frame" /\ UNCHANGED <<current_frame_index, sess>>
                         ELSE MoveTo(new_index, "frame_shown")

\* do_down(arg): new_index = current + count, refused only when >= len(frames)
do_down(arg) ==
    /\ Live
    /\ UNCHANGED notSess
    /\ table' = <<>>
    /\ UNCHANGED <<core_dump, heap, heap0, frame_namespaces, display_list>>
    /\ IF IsValueError(arg)
          THEN report' = "invalid_number" /\ UNCHANGED <<current_frame_index, sess>>
          ELSE LET count == IF arg.t = "none" THEN 1 ELSE arg.n
                   new_index == current_frame_index + count
               IN  /\ (new_index < NumFrames) => (new_index \in IndexRange)
                   /\ IF new_index >= NumFrames
                         THEN report' = "newest_frame" /\ UNCHANGED <<current_frame_index, sess>>
                         ELSE MoveTo(new_index, "frame_shown")

\* do_f checking the upper bound only, as do_down does
do_f_upper_bound_only(arg) ==
    /\ Live
    /\ UNCHANGED notSess
    /\ table' = <<>>
    /\ UNCHANGED <<core_dump, heap, heap0, frame_namespaces, display_list>>
    /\ IF arg.t = "none"
          THEN MoveTo(current_frame_index, "frame_shown")
          ELSE IF IsValueError(arg)
          THEN report' = "invalid_number" /\ UNCHANGED <<current_frame_index, sess>>
          ELSE IF arg.n >= NumFrames
          THEN report' = "frame_out_of_range" /\ UNCHANGED <<current_frame_index, sess>>
          ELSE MoveTo(arg.n, "frame_shown")

\* do_f(arg): no argument shows the current frame; a number in
\* [0, len(frames)-1] selects it; anything else is reported
do_f(arg) ==
    /\ Live
    /\ IF arg.t = "none"
          THEN MoveTo(current_frame_index, "frame_shown")
          ELSE IF IsValueError(arg)
          THEN report' = "invalid_number" /\ UNCHANGED <<current_frame_index, sess>>
          ELSE IF arg.n < 0 \/ arg.n >= NumFrames
          THEN report' = "frame_out_of_range" /\ UNCHANGED <<current_frame_index, sess>>
          ELSE MoveTo(arg.n, "frame_shown")
    /\ UNCHANGED <<core_dump, heap, heap0, frame_namespaces, display_list>>
    /\ UNCHANGED notSess
    /\ table' = <<>>

----------------------------------------------------------------------------
(* Evaluation: default and _execute_code *)

\* the inputs tried: read a name, rebind the module-level name g to 7,
\* append to the list a name is bound to, a division by zero, text that
\* compiles in neither mode, the statement raise SystemExit, and the
\* expression __import__("sys").exit()
Codes ==
    {[op |-> "read", name |-> n] : n \in {"x", "y"}}
    \cup {[op |-> "assign", name |-> n] : n \in {"g"}}
    \cup {[op |-> "append", name |-> n] : n \in {"lst", "g", "x"}}
    \cup {[op |-> o, name |-> "x"] :
             o \in {"div0", "syntax_error", "raise_exit", "call_exit"}}

\* the text compiles in "exec" mode only
IsStatement(code) == code.op \in {"assign", "raise_exit"}

\* an empty argument, and the arguments tried for p, pp, whatis and source
NoCode == [op |-> "none", name |-> "x"]
Exprs ==
    {[op |-> "read", name |-> "x"], [op |-> "append", name |-> "lst"]}
    \cup {[op |-> o, name |-> "x"] : o \in {"div0", "raise_exit", "call_exit"}}

\* eval and exec add __builtins__ to the dictionary they are given
WithBuiltins(ns) == DictSet(ns, "__builtins__", Builtins)

\* _get_current_frame: "none", "raise" (IndexError) or "frame"
GetCurrentFrame(idx) ==
    IF NumFrames = 0 \/ idx >= NumFrames THEN "none"
    ELSE IF ~PyIndexOk(NumFrames, idx) THEN "raise"
    ELSE "frame"

\* _get_namespace: the position of the namespace used, 0 for the fresh {}
GetNamespace(idx) ==
    IF idx >= Len(frame_namespaces) THEN 0 ELSE PyIndex(Len(frame_namespaces), idx)

\* what running code in namespace ns does: the namespace and heap after,
\* what is printed, and whether the failure leaves the command loop
\* (only failures deriving from Exception are caught)
RunCode(ns, hp, code) ==
    LET nb == WithBuiltins(ns)
        same(r) == [ns |-> nb, heap |-> hp, report |-> r, escapes |-> FALSE]
    IN  CASE code.op = "syntax_error" ->
               [ns |-> ns, heap |-> hp, report |-> "error_reported", escapes |-> FALSE]
          [] code.op \in {"raise_exit", "call_exit"} ->
               [ns |-> nb, heap |-> hp, report |-> "SystemExit", escapes |-> TRUE]
          [] code.op = "div0" -> same("error_reported")
          [] code.op = "read" ->
               IF code.name \in DOMAIN nb THEN same("value_printed")
               ELSE same("error_reported")
          [] code.op = "assign" ->
               [ns |-> DictSet(nb, code.name, IntVal(7)), heap |-> hp,
                report |-> "ok", escapes |-> FALSE]
          [] code.op = "append" ->
               IF code.name \notin DOMAIN nb THEN same("error_reported")
               ELSE IF nb[code.name][1] # "ref" THEN same("error_reported")
               ELSE [ns |-> nb,
                     heap |-> [hp EXCEPT ![nb[code.name][2]] = Append(@, 1)],
                     report |-> "ok", escapes |-> FALSE]

\* the lists the code would grow stay within the model's bound
CodeInBounds(ns, code) ==
    (code.op = "append" /\ code.name \in DOMAIN ns /\ ns[code.name][1] = "ref")
        => Len(heap[ns[code.name][2]]) < MaxListLen

\* eval(arg, namespace) on a string: __builtins__ is added before the text
\* is compiled, and a statement is a SyntaxError; said is what the command
\* prints for a value
EvalCode(ns, hp, code, said) ==
    IF IsStatement(code) \/ code.op = "syntax_error"
        THEN [ns |-> WithBuiltins(ns), heap |-> hp, report |-> "error_reported",
              escapes |-> FALSE]
    ELSE LET r == RunCode(ns, hp, code)
         IN  IF r.escapes \/ r.report = "error_reported" THEN r
             ELSE [r EXCEPT !.report = said]

\* _execute_code(code) under the except Exception of default and do_p
ExecuteCode(code) ==
    /\ UNCHANGED <<core_dump, heap0, current_frame_index, display_list>>
    /\ LET got == GetCurrentFrame(current_frame_index)
           pos == GetNamespace(current_frame_index)
       IN  IF got = "none"
              THEN report' = "no_frame" /\ UNCHANGED <<heap, frame_namespaces, sess>>
           ELSE IF got = "raise"
              THEN report' = "error_reported" /\ UNCHANGED <<heap, frame_namespaces, sess>>
           ELSE /\ CodeInBounds(frame_namespaces[pos], code)
                /\ LET r == RunCode(frame_namespaces[pos], heap, code)
                   IN  /\ frame_namespaces' = [frame_namespaces EXCEPT ![pos] = r.ns]
                       /\ heap' = r.heap
                       /\ report' = r.report
                       /\ sess' = IF r.escapes THEN "crashed" ELSE sess

\* default(line) for a non-empty line
default(code) ==
    /\ Live
    /\ UNCHANGED notSess
    /\ table' = <<>>
    /\ ExecuteCode(code)

\* *** Missing expression
MissingExpression ==
    /\ report' = "missing_expression"
    /\ UNCHANGED <<core_dump, heap, heap0, current_frame_index, frame_namespaces,
                   display_list, sess>>

\* do_p(arg)
do_p(arg) ==
    /\ Live
    /\ UNCHANGED notSess
    /\ table' = <<>>
    /\ IF arg = NoCode
          THEN MissingExpression
          ELSE ExecuteCode(arg)

\* namespace = self._get_namespace() outside any handler, then
\* eval(arg, namespace) under except Exception: do_pp, do_whatis, do_source
EvalArg(arg, said) ==
    /\ UNCHANGED <<core_dump, heap0, current_frame_index, display_list>>
    /\ IF current_frame_index >= Len(frame_namespaces)
          THEN LET r == EvalCode(<<>>, heap, arg, said)
               IN  /\ report' = r.report
                   /\ sess' = IF r.escapes THEN "crashed" ELSE sess
                   /\ UNCHANGED <<heap, frame_namespaces>>
          ELSE IF ~PyIndexOk(Len(frame_namespaces), current_frame_index)
          THEN /\ sess' = "crashed" /\ report' = "IndexError"
               /\ UNCHANGED <<heap, frame_namespaces>>
          ELSE LET pos == GetNamespace(current_frame_index)
               IN  /\ CodeInBounds(frame_namespaces[pos], arg)
                   /\ LET r == EvalCode(frame_namespaces[pos], heap, arg, said)
                      IN  /\ frame_namespaces' = [frame_namespaces EXCEPT ![pos] = r.ns]
                          /\ heap' = r.heap
                          /\ report' = r.report
                          /\ sess' = IF r.escapes THEN "crashed" ELSE sess

\* do_pp(arg)
do_pp(arg) ==
    /\ Live
    /\ UNCHANGED notSess
    /\ table' = <<>>
    /\ IF arg = NoCode THEN MissingExpression ELSE EvalArg(arg, "value_printed")

\* do_whatis(arg)
do_whatis(arg) ==
    /\ Live
    /\ UNCHANGED notSess
    /\ table' = <<>>
    /\ IF arg = NoCode THEN MissingExpression ELSE EvalArg(arg, "value_printed")

\* do_source(arg): without an argument the current frame's context; else
\* inspect.getsource of the value, which for an int, a list or None raises
\* TypeError
do_source(arg) ==
    /\ Live
    /\ UNCHANGED notSess
    /\ table' = <<>>
    /\ IF arg = NoCode
          THEN /\ UNCHANGED <<core_dump, heap, heap0, current_frame_index,
                              frame_namespaces, display_list>>
               /\ IF GetCurrentFrame(current_frame_index) = "raise"
                     THEN sess' = "crashed" /\ report' = "IndexError"
                     ELSE /\ sess' = sess
                          /\ report' = (IF GetCurrentFrame(current_frame_index) = "none"
                                           THEN "no_source" ELSE "ok")
          ELSE EvalArg(arg, "could_not_get_source")

----------------------------------------------------------------------------
(* Display list, information, quit *)

DisplayArgs == {"", "x"}
UndisplayArgs == {"", "x", "y"}

\* list.remove: the first occurrence
RemoveFirst(s, e) ==
    LET i == CHOOSE j \in 1..Len(s) : s[j] = e /\ \A k \in 1..(j - 1) : s[k] # e
    IN  SubSeq(s, 1, i - 1) \o SubSeq(s, i + 1, Len(s))

do_display(arg) ==
    /\ Live
    /\ UNCHANGED notSess
    /\ table' = <<>>
    /\ UNCHANGED <<core_dump, heap, heap0, current_frame_index, frame_namespaces, sess>>
    /\ IF arg = ""
          THEN report' = "missing_expression" /\ UNCHANGED display_list
          ELSE /\ Len(display_list) < MaxDisplay
               /\ display_list' = Append(display_list, arg)
               /\ report' = "ok"

do_undisplay_every_occurrence(arg) ==
    /\ Live
    /\ UNCHANGED notSess
    /\ table' = <<>>
    /\ UNCHANGED <<core_dump, heap, heap0, current_frame_index, frame_namespaces, sess>>
    /\ IF arg = ""
          THEN display_list' = <<>> /\ report' = "ok"
          ELSE IF \E j \in 1..Len(display_list) : display_list[j] = arg
          THEN display_list' = SelectSeq(display_list, LAMBDA e : e # arg) /\ report' = "ok"
          ELSE report' = "not_in_display_list" /\ UNCHANGED display_list

do_undisplay(arg) ==
    /\ Live
    /\ UNCHANGED notSess
    /\ table' = <<>>
    /\ UNCHANGED <<core_dump, heap, heap0, current_frame_index, frame_namespaces, sess>>
    /\ IF arg = ""
          THEN display_list' = <<>> /\ report' = "ok"
          ELSE IF \E j \in 1..Len(display_list) : display_list[j] = arg
          THEN display_list' = RemoveFirst(display_list, arg) /\ report' = "ok"
          ELSE report' = "not_in_display_list" /\ UNCHANGED display_list

\* do_where, lines 353-359: one row per frame of reversed(self.frames), with
\* its index and the arrow on the row whose index is the current one
WhereRows(fs, index) ==
    [i \in 1..Len(fs) |->
        LET frame_idx == Len(fs) - 1 - (i - 1) IN
        [frame_idx |-> frame_idx,
         frame_id  |-> fs[Len(fs) - (i - 1)].frame_id,
         marker    |-> frame_idx = index]]

\* do_info and do_where print from the snapshot and the index
do_info ==
    /\ Live
    /\ UNCHANGED notSess
    /\ table' = <<>>
    /\ report' = "ok"
    /\ UNCHANGED <<core_dump, heap, heap0, current_frame_index, frame_namespaces,
                   display_list, sess>>

do_where ==
    /\ Live
    /\ UNCHANGED notSess
    /\ table' = WhereRows(core_dump.frames, current_frame_index)
    /\ report' = "ok"
    /\ UNCHANGED <<core_dump, heap, heap0, current_frame_index, frame_namespaces,
                   display_list, sess>>

\* a command that prints from the current frame: "No current frame" when
\* _get_current_frame returns None, IndexError when it raises
PrintFromFrame ==
    /\ UNCHANGED <<core_dump, heap, heap0, current_frame_index, frame_namespaces,
                   display_list>>
    /\ IF GetCurrentFrame(current_frame_index) = "raise"
          THEN sess' = "crashed" /\ report' = "IndexError"
          ELSE /\ sess' = sess
               /\ report' = (IF GetCurrentFrame(current_frame_index) = "none"
                                THEN "no_frame" ELSE "ok")

\* do_locals prints from the current frame's namespace
do_locals ==
    /\ Live
    /\ UNCHANGED notSess
    /\ table' = <<>>
    /\ PrintFromFrame

\* do_args prints the bindings of the current frame's captured locals_dict
do_args ==
    /\ Live
    /\ UNCHANGED notSess
    /\ table' = <<>>
    /\ PrintFromFrame

\* do_globals prints from the current frame's captured globals_dict
do_globals ==
    /\ Live
    /\ UNCHANGED notSess
    /\ table' = <<>>
    /\ PrintFromFrame

\* the rows do_globals prints for a frame: the names of its globals_dict
\* that do not start with "__", each with the repr of its value
GlobalsShown(frame, hp) ==
    [k \in {n \in DOMAIN frame.globals_dict : n # "__builtins__"} |->
        Deref(frame.globals_dict[k], hp)]

\* do_quit (q, exit, EOF) returns True, which ends cmdloop
do_quit ==
    /\ Live
    /\ UNCHANGED notSess
    /\ table' = <<>>
    /\ sess' = "closed"
    /\ report' = "exiting"
    /\ UNCHANGED <<core_dump, heap, heap0, current_frame_index, frame_namespaces,
                   display_list>>

SessNext ==
    \/ \E arg \in NavArgs : do_up(arg)
    \/ \E arg \in NavArgs : do_down(arg)
    \/ \E arg \in NavArgs : do_f(arg)
    \/ \E code \in Codes : default(code)
    \/ \E arg \in {NoCode} \cup Exprs : do_p(arg)
    \/ \E arg \in {NoCode} \cup Exprs : do_pp(arg)
    \/ \E arg \in {NoCode} \cup Exprs : do_whatis(arg)
    \/ \E arg \in {NoCode} \cup Exprs : do_source(arg)
    \/ \E arg \in DisplayArgs : do_display(arg)
    \/ \E arg \in UndisplayArgs : do_undisplay(arg)
    \/ do_locals
    \/ do_args
    \/ do_globals
    \/ do_info
    \/ do_where
    \/ do_quit

\* the other machines at rest
GuardIdle ==
    /\ pc = <<>> /\ lock_file_exists = FALSE /\ dump_one_process_only = <<>>
    /\ attempt = <<>> /\ wrote = <<>> /\ raised = <<>> /\ overlapped = FALSE

HookIdle ==
    /\ exc = <<>> /\ where = "hook" /\ hpc = "off" /\ tb = <<>> /\ frames = <<>>
    /\ walk_passes = 0
    /\ built = FALSE /\ saved = 0 /\ save_failed = FALSE
    /\ default_hook_calls = <<>> /\ propagated = "none"


----------------------------------------------------------------------------
(* Properties of the replay session *)

\* C1: in a session over a snapshot with N >= 1 frames, after any sequence
\* of commands the current frame index is within [0, N-1].
C1_IndexWithinFrames ==
    NumFrames >= 1 => current_frame_index \in 0..(NumFrames - 1)

\* C2: no session command changes the loaded snapshot: every frame's
\* captured local and module-level mappings, and the values they hold, are
\* the same as at session start.
C2_SnapshotUnchanged ==
    \A i \in 1..NumFrames :
        /\ \A k \in DOMAIN core_dump.frames[i].locals_dict :
              Deref(core_dump.frames[i].locals_dict[k], heap)
                  = Deref(CapturedFrame(i - 1).locals_dict[k], heap0)
        /\ \A k \in DOMAIN core_dump.frames[i].globals_dict :
              Deref(core_dump.frames[i].globals_dict[k], heap)
                  = Deref(CapturedFrame(i - 1).globals_dict[k], heap0)

\* what evaluating in the j-th namespace sees: each name with what it holds
Visible(j) ==
    [k \in DOMAIN frame_namespaces[j] |-> Deref(frame_namespaces[j][k], heap)]

\* C29: the where listing shows every frame exactly once in call order, the
\* newest frame (highest id) in the last row, and marks exactly the row of
\* the current frame.
C29_WhereListsInCallOrder ==
    table # <<>> =>
        /\ Len(table) = NumFrames
        /\ \A i \in 1..Len(table) : table[i].frame_id = core_dump.frames[i].frame_id
        /\ table[Len(table)].frame_id = NumFrames - 1
        /\ \A i \in 1..Len(table) :
              table[i].marker <=> core_dump.frames[i].frame_id = current_frame_index

\* C30: info, args and source (with or without an argument) never change
\* session state: the current frame index, every per-frame namespace (and
\* the objects its bindings refer to) and the display list are the same
\* after the command as before it.
C30_InformationalCommandsReadOnly ==
    [][(\/ do_info
        \/ do_args
        \/ \E arg \in {NoCode} \cup Exprs : do_source(arg))
        => /\ UNCHANGED <<current_frame_index, frame_namespaces, display_list>>
           /\ heap' = heap]_vars

\* the number of times e stands in the list s
Occurrences(s, e) == Cardinality({j \in 1..Len(s) : s[j] = e})

C32_ClosedOnlyByQuit ==
    [][/\ (sess = "live" /\ sess' # "live") => (do_quit /\ sess' = "closed")
       /\ sess = "closed" => UNCHANGED sessVars]_vars

\* C40: a session opened on a snapshot with zero frames stays live and
\* well-defined: no command raises out of the command loop and the current
\* frame index stays 0 until quit.
C40_ZeroFrameSessionStaysAtZero ==
    Len(core_dump.frames) = 0 =>
        (current_frame_index = 0 /\ sess \in {"live", "closed"})

\* C33: at session start frame i's namespace is frame i's captured local
\* bindings layered over its captured module-level bindings: every captured
\* name is present, and a name bound in both scopes has the local value.
C33_NamespaceSeededLocalsOverGlobals ==
    report = "intro" =>
        /\ Len(frame_namespaces) = NumFrames
        /\ \A i \in 1..NumFrames :
              LET frame == core_dump.frames[i]
                  ns    == frame_namespaces[i]
              IN  /\ DOMAIN ns = DOMAIN frame.locals_dict \cup DOMAIN frame.globals_dict
                  /\ \A k \in DOMAIN frame.locals_dict : ns[k] = frame.locals_dict[k]
                  /\ \A k \in DOMAIN frame.globals_dict \ DOMAIN frame.locals_dict :
                        ns[k] = frame.globals_dict[k]

\* a session just opened on two frames: x is bound in both scopes of the
\* second frame and its namespace holds the local value
C33_Witness ==
    /\ report = "intro"
    /\ NumFrames = 2
    /\ core_dump.frames[2].locals_dict["x"] # core_dump.frames[2].globals_dict["x"]
    /\ frame_namespaces[2]["x"] = core_dump.frames[2].locals_dict["x"]
    /\ frame_namespaces[2]["g"] = core_dump.frames[2].globals_dict["g"]

\* C16: a mutation made by evaluating in frame i persists in frame i's
\* namespace and is never visible in the namespace of another frame, also
\* when both frames captured the same mutable value: what a frame's
\* namespace shows changes only by a command evaluated in that frame.
C16_MutationStaysInItsFrame ==
    [][\A j \in 1..Len(frame_namespaces) :
          (Visible(j)' # Visible(j)) =>
              /\ current_frame_index' = current_frame_index
              /\ GetCurrentFrame(current_frame_index) = "frame"
              /\ j = GetNamespace(current_frame_index)]_vars

\* C17: globals shows the module-level bindings as captured: after any
\* evaluate commands (rebinding a module-level name, mutating a
\* module-level value in place) its rows for the current frame are those it
\* showed at session start.
C17_GlobalsShowsCapturedBindings ==
    (Live /\ GetCurrentFrame(current_frame_index) = "frame") =>
        LET pos == PyIndex(NumFrames, current_frame_index)
        IN  GlobalsShown(core_dump.frames[pos], heap)
                = GlobalsShown(CapturedFrame(pos - 1), heap0)

\* the count an up or down argument stands for
CountOf(arg) == IF arg.t = "none" THEN 1 ELSE arg.n

\* the index after a move to target: the target when it is a frame, else
\* the index unchanged
MovedOrRefused(target) ==
    IF target \in 0..(NumFrames - 1) THEN current_frame_index' = target
    ELSE current_frame_index' = current_frame_index

\* C18: navigation bounds, in a session with N >= 1 frames at a frame in
\* [0, N-1]: up moves one frame towards 0 and down one towards N-1, so N
\* ups from the innermost frame leave the index at 0 and N downs from frame
\* 0 leave it at N-1; an up at frame 0 reports the oldest frame and a down
\* at frame N-1 the newest frame, the index unchanged; an up(n) or down(n)
\* whose target is outside [0, N-1] never changes the index.
C18_NavigationBounds ==
    [][(NumFrames >= 1 /\ current_frame_index \in 0..(NumFrames - 1)) =>
          \A arg \in NavArgs \ {BadArg} :
              /\ do_up(arg) =>
                    /\ MovedOrRefused(current_frame_index - CountOf(arg))
                    /\ current_frame_index - CountOf(arg) < 0 => report' = "oldest_frame"
              /\ do_down(arg) =>
                    /\ MovedOrRefused(current_frame_index + CountOf(arg))
                    /\ current_frame_index + CountOf(arg) >= NumFrames
                          => report' = "newest_frame"]_vars

\* C19: select(i) sets the current frame index to i when 0 <= i <= N-1;
\* for any other i, and for an argument that is not a number, it reports an
\* error and leaves the index, the namespaces and the display list
\* unchanged.
C19_SelectSetsOrRefuses ==
    [][\A arg \in NavArgs \ {NoArg} :
          do_f(arg) =>
              IF arg.t = "int" /\ arg.n \in 0..(NumFrames - 1)
                 THEN current_frame_index' = arg.n /\ report' = "frame_shown"
                 ELSE /\ report' \in {"frame_out_of_range", "invalid_number"}
                      /\ UNCHANGED <<current_frame_index, frame_namespaces, display_list>>]_vars

\* a select past the newest frame refused in a 2-frame session at index 1,
\* after an evaluation and with expressions on display
C19_Witness ==
    /\ NumFrames = 2 /\ current_frame_index = 1
    /\ report = "frame_out_of_range"
    /\ display_list # <<>>
    /\ "__builtins__" \in DOMAIN frame_namespaces[2]

\* C20: every snapshot built has its focus index in [0, N-1] when it has
\* N >= 1 frames: a failure capture sets it to N-1 (0 without frames), a
\* manual capture to 0; a session opened on the snapshot starts at the
\* focus index.
C20_FocusWithinFrames ==
    /\ NumFrames >= 1 => core_dump.current_frame_id \in 0..(NumFrames - 1)
    /\ core_dump.current_frame_id =
          (IF core_dump.exception_info # "None" /\ NumFrames >= 1
              THEN NumFrames - 1 ELSE 0)
    /\ report = "intro" => current_frame_index = core_dump.current_frame_id

\* a session just opened on a failure capture of two frames
C20_Witness ==
    /\ report = "intro"
    /\ NumFrames = 2 /\ core_dump.exception_info # "None"
    /\ current_frame_index = 1

\* C15: a failure raised while evaluating user input (bare input, p, pp,
\* whatis, source) never ends the session, whatever the evaluated code
\* raises, a request to exit the process included: after the command the
\* session is live.
C15_EvaluationNeverEndsSession ==
    [][(\E code \in Codes \cup Exprs :
           \/ default(code) \/ do_p(code) \/ do_pp(code)
           \/ do_whatis(code) \/ do_source(code))
        => sess' = "live"]_vars

----------------------------------------------------------------------------
(* dump(path, dump_one_process_only) of __init__.py, one step per call that
   touches the file system, for processes sharing the target directory *)

Procs == 1..NumProcs

\* a call between its entry and its return
InFlight(p) == pc[p] \in {"check", "create", "write", "remove"}
\* a call that returned, was skipped or raised
Finished(p) == pc[p] \in {"returned", "skipped", "raised"}

GuardInit ==
    /\ pc = [p \in Procs |-> "idle"]
    /\ lock_file_exists = FALSE
    /\ dump_one_process_only = [p \in Procs |-> TRUE]
    /\ attempt = [p \in Procs |-> 0]
    /\ wrote = [p \in Procs |-> 0]
    /\ raised = [p \in Procs |-> "none"]
    /\ overlapped = FALSE

\* dump() is entered: the snapshot is built and the path chosen
Call(p, flag) ==
    /\ UNCHANGED notGuard
    /\ pc[p] = "idle" \/ Finished(p)
    /\ attempt[p] < MaxAttempts
    /\ attempt' = [attempt EXCEPT ![p] = @ + 1]
    /\ dump_one_process_only' = [dump_one_process_only EXCEPT ![p] = flag]
    /\ raised' = [raised EXCEPT ![p] = "none"]
    /\ pc' = [pc EXCEPT ![p] = IF flag THEN "check" ELSE "write"]
    /\ overlapped' = (overlapped \/
                        (attempt[p] = 0 /\ \E q \in Procs \ {p} : InFlight(q) /\ attempt[q] = 1))
    /\ UNCHANGED <<lock_file_exists, wrote>>

\* if os.path.exists(lock_file): warn and return
check_marker_ignored(p) ==
    /\ UNCHANGED notGuard
    /\ pc[p] = "check"
    /\ pc' = [pc EXCEPT ![p] = "create"]
    /\ UNCHANGED <<lock_file_exists, dump_one_process_only, attempt, wrote, raised, overlapped>>

CheckMarker(p) ==
    /\ UNCHANGED notGuard
    /\ pc[p] = "check"
    /\ pc' = [pc EXCEPT ![p] = IF lock_file_exists THEN "skipped" ELSE "create"]
    /\ UNCHANGED <<lock_file_exists, dump_one_process_only, attempt, wrote, raised, overlapped>>

\* open(lock_file, "w").close()
CreateMarker(p) ==
    /\ UNCHANGED notGuard
    /\ pc[p] = "create"
    /\ lock_file_exists' = TRUE
    /\ pc' = [pc EXCEPT ![p] = "write"]
    /\ UNCHANGED <<dump_one_process_only, attempt, wrote, raised, overlapped>>

\* save_core_dump(d, path): writes the artifact, or raises OSError when
\* the destination cannot be written; dump() has no handler around it
WriteArtifact(p, ok) ==
    /\ UNCHANGED notGuard
    /\ pc[p] = "write"
    /\ IF ok
          THEN /\ wrote' = [wrote EXCEPT ![p] = @ + 1]
               /\ pc' = [pc EXCEPT ![p] = "remove"]
               /\ UNCHANGED raised
          ELSE /\ pc' = [pc EXCEPT ![p] = "raised"]
               /\ raised' = [raised EXCEPT ![p] = "write_error"]
               /\ UNCHANGED wrote
    /\ UNCHANGED <<lock_file_exists, dump_one_process_only, attempt, overlapped>>

\* os.remove(lock_file): lock_file is bound only on the guarded path, and
\* os.remove raises FileNotFoundError when the marker is already gone
RemoveMarker(p) ==
    /\ UNCHANGED notGuard
    /\ pc[p] = "remove"
    /\ IF ~dump_one_process_only[p]
          THEN /\ pc' = [pc EXCEPT ![p] = "raised"]
               /\ raised' = [raised EXCEPT ![p] = "unbound_lock_file"]
               /\ UNCHANGED lock_file_exists
          ELSE IF lock_file_exists
          THEN /\ lock_file_exists' = FALSE
               /\ pc' = [pc EXCEPT ![p] = "returned"]
               /\ UNCHANGED raised
          ELSE /\ pc' = [pc EXCEPT ![p] = "raised"]
               /\ raised' = [raised EXCEPT ![p] = "remove_error"]
               /\ UNCHANGED lock_file_exists
    /\ UNCHANGED <<dump_one_process_only, attempt, wrote, overlapped>>

\* the process dies inside dump(): "dead_holding" when it had created the
\* marker and not yet removed it
Die(p) ==
    /\ UNCHANGED notGuard
    /\ InFlight(p)
    /\ pc' = [pc EXCEPT ![p] = IF dump_one_process_only[p] /\ pc[p] \in {"write", "remove"}
                                THEN "dead_holding" ELSE "dead"]
    /\ UNCHANGED <<lock_file_exists, dump_one_process_only, attempt, wrote, raised, overlapped>>

GuardNext ==
    \/ \E p \in Procs, flag \in BOOLEAN : Call(p, flag)
    \/ \E p \in Procs : CheckMarker(p)
    \/ \E p \in Procs : CreateMarker(p)
    \/ \E p \in Procs, ok \in BOOLEAN : WriteArtifact(p, ok)
    \/ \E p \in Procs : RemoveMarker(p)
    \/ \E p \in Procs : Die(p)

----------------------------------------------------------------------------
(* Properties of the writer guard *)

\* two first calls, both guarded, were in flight together and both are over
\* without a failed write
BothFinishedGuarded(p, q) ==
    /\ p # q
    /\ overlapped
    /\ attempt[p] = 1 /\ attempt[q] = 1
    /\ Finished(p) /\ Finished(q)
    /\ dump_one_process_only[p] /\ dump_one_process_only[q]
    /\ raised[p] # "write_error" /\ raised[q] # "write_error"

\* C3: when two processes concurrently call the guarded save into one
\* directory, under every interleaving exactly one of them writes an
\* artifact and the other is skipped and writes none.
C3_ExactlyOneWrites ==
    \A p, q \in Procs :
        BothFinishedGuarded(p, q) =>
            \/ wrote[p] = 1 /\ wrote[q] = 0 /\ pc[q] = "skipped"
            \/ wrote[q] = 1 /\ wrote[p] = 0 /\ pc[p] = "skipped"

\* C4: after two concurrent guarded save attempts have both finished, the
\* marker file does not exist and neither attempt raised while removing it.
C4_MarkerGoneNoRemoveError ==
    \A p, q \in Procs :
        BothFinishedGuarded(p, q) =>
            /\ ~lock_file_exists
            /\ raised[p] # "remove_error" /\ raised[q] # "remove_error"

\* C5: if a process acquired the marker and its artifact write then fails,
\* the marker is removed before the guarded save raises.
C5_ReleasedWhenWriteFails ==
    [][\A p \in Procs :
          (pc[p] = "write" /\ dump_one_process_only[p] /\ pc'[p] = "raised")
              => ~lock_file_exists']_vars

\* C27: when the marker exists when a guarded save looks for it, the save
\* is skipped: it writes no artifact, leaves the marker in place, and the
\* skipped call does nothing more (only a new call of the program moves the
\* process on, and nothing is written or removed for it in between).
C27_SkippedWhenMarkerExists ==
    [][\A p \in Procs :
          /\ (pc[p] = "check" /\ lock_file_exists /\ pc'[p] \notin {"check", "dead"})
                => /\ pc'[p] = "skipped"
                   /\ wrote' = wrote
                   /\ lock_file_exists'
                   /\ attempt' = attempt
          /\ (pc[p] = "skipped" /\ pc'[p] # "skipped")
                => /\ attempt'[p] = attempt[p] + 1
                   /\ wrote' = wrote
                   /\ lock_file_exists' = lock_file_exists
          /\ (pc[p] = "skipped" /\ pc'[p] = "skipped") => wrote'[p] = wrote[p]]_vars

\* a first call was skipped while the other process holds the marker and
\* is still writing
C27_Witness ==
    \E p, q \in Procs :
        /\ pc[p] = "skipped" /\ attempt[p] = 1 /\ wrote[p] = 0
        /\ pc[q] = "write" /\ dump_one_process_only[q]
        /\ lock_file_exists

\* the marker of a process that died between creating and removing it
Orphaned == lock_file_exists /\ \E p \in Procs : pc[p] = "dead_holding"

\* C36: a manual checkpoint requested without the writer guard
\* (dump_one_process_only false) writes the artifact, neither creates nor
\* removes the marker file, and returns without raising: once the artifact
\* is written the call does not end in a raised failure.
C36_UnguardedDumpReturns ==
    \A p \in Procs :
        (~dump_one_process_only[p] /\ pc[p] = "raised") => raised[p] = "write_error"

\* C28: once the process holding the marker has died before releasing it, the
\* marker stays (no process of the program removes it) and every guarded
\* save that looks for it is skipped.
C28_OrphanedMarkerBlocksAll ==
    [][Orphaned =>
          /\ lock_file_exists'
          /\ \A q \in Procs :
                (pc[q] = "check" /\ pc'[q] \notin {"check", "dead"}) => pc'[q] = "skipped"]_vars

----------------------------------------------------------------------------
(* Failures: classes, messages, propagation chains *)

\* the failure classes tried and the class each derives from: UserInterrupt
\* and UserExit are program-defined subclasses, GeneratorExit and
\* WorkerAbort derive from BaseException and not from Exception,
\* ModuleNotFoundError is what a failed import statement raises
Parent ==
    [c \in {"BaseException", "Exception", "KeyboardInterrupt", "SystemExit",
            "GeneratorExit", "WorkerAbort", "ZeroDivisionError", "OSError",
            "TypeError", "AttributeError", "PicklingError", "RuntimeError",
            "UserInterrupt", "UserExit", "ImportError",
            "ModuleNotFoundError"} |->
        CASE c = "BaseException" -> "BaseException"
          [] c \in {"Exception", "KeyboardInterrupt", "SystemExit",
                    "GeneratorExit", "WorkerAbort"} -> "BaseException"
          [] c \in {"ZeroDivisionError", "OSError", "TypeError", "AttributeError",
                    "PicklingError", "RuntimeError", "ImportError"} -> "Exception"
          [] c = "ModuleNotFoundError" -> "ImportError"
          [] c = "UserInterrupt" -> "KeyboardInterrupt"
          [] c = "UserExit" -> "SystemExit"]

Classes == DOMAIN Parent

\* issubclass(c, d)
RECURSIVE IsSubclass(_, _)
IsSubclass(c, d) ==
    IF c = d THEN TRUE
    ELSE IF Parent[c] = c THEN FALSE
    ELSE IsSubclass(Parent[c], d)

\* the classes a failure can be raised with
RaisedClasses == Classes \ {"BaseException", "Exception"}

\* the words a message is made of
Words == {"division", "SIGTERM", "sigint", "SigKill", "signals", "Signal"}

\* str.lower on a word
Lower(w) ==
    CASE w = "SIGTERM" -> "sigterm"
      [] w = "SigKill" -> "sigkill"
      [] w = "Signal" -> "signal"
      [] OTHER -> w

\* name in word, for a lower-case word
InWord(name, w) ==
    \/ name = w
    \/ name = "signal" /\ w = "signals"

\* messages: sequences of at most MaxMsgLen words
Messages == UNION {[1..n -> Words] : n \in 0..MaxMsgLen}

\* name in str(exc_value).lower()
InLowered(name, msg) == \E k \in 1..Len(msg) : InWord(name, Lower(msg[k]))

\* any(signal_name in exc_str for signal_name in [...]), lines 289 and 318
SignalNames == {"sigterm", "sigint", "sigkill", "signal"}
MentionsSignal(msg) == \E name \in SignalNames : InLowered(name, msg)

\* a record of the chain, by what reading its source file does: "ok" is
\* read as utf-8, "undecodable" exists and is not utf-8, "missing" cannot be
\* opened, "engine" is a frame of core_dump.py
SourceKinds == {"ok", "undecodable", "missing", "engine"}
Chains == UNION {[1..n -> SourceKinds] : n \in 1..MaxChain}

Failures == [cls : RaisedClasses, msg : Messages, tb : Chains]

----------------------------------------------------------------------------
(* exception_handler (sys.excepthook) and _core_dump_wrapper *)

NoFailure == [cls |-> "BaseException", msg |-> <<>>, tb |-> <<"ok">>]

HookInit ==
    /\ exc = NoFailure
    /\ where = "hook"
    /\ hpc = "idle"
    /\ tb = <<>>
    /\ frames = <<>>
    /\ walk_passes = 0
    /\ built = FALSE
    /\ saved = 0
    /\ save_failed = FALSE
    /\ default_hook_calls = <<>>
    /\ propagated = "none"

\* exception_handler lines 275-291: the failures handed straight to
\* sys.__excepthook__ (the class is compared with ==)
HookPassesThrough(e) ==
    \/ e.cls = "KeyboardInterrupt"
    \/ e.cls = "SystemExit"
    \/ MentionsSignal(e.msg)

\* _core_dump_wrapper lines 308-319: "reraise" without a snapshot, "dump",
\* or "uncaught" when no except clause matches
WrapperCatch(e) ==
    IF IsSubclass(e.cls, "KeyboardInterrupt") \/ IsSubclass(e.cls, "SystemExit")
        THEN "reraise"
    ELSE IF IsSubclass(e.cls, "Exception")
        THEN IF MentionsSignal(e.msg) THEN "reraise" ELSE "dump"
    ELSE "uncaught"

\* run_program_with_handler, __main__.py lines 36-46: the except clauses
\* around exec_module; "escapes" when none matches and the failure leaves
\* main for sys.excepthook
RunnerCatch(e) ==
    IF IsSubclass(e.cls, "KeyboardInterrupt") THEN "exit_130"
    ELSE IF IsSubclass(e.cls, "SystemExit") THEN "exit_code"
    ELSE IF IsSubclass(e.cls, "ImportError") THEN "exit_1"
    ELSE "escapes"

\* dpdb program.py: a failure escapes the program that exec_module runs
\* (line 33)
RunProgram ==
    /\ UNCHANGED notHook
    /\ hpc = "idle"
    /\ \E e \in Failures : exc' = e
    /\ where' = "runner"
    /\ hpc' = "entered"
    /\ UNCHANGED <<tb, frames, walk_passes, built, saved, save_failed, default_hook_calls, propagated>>

\* the try statement of run_program_with_handler, lines 18-49: a caught
\* failure becomes the exit code, any other goes on to sys.excepthook
RunnerHandle ==
    /\ UNCHANGED notHook
    /\ hpc = "entered" /\ where = "runner"
    /\ IF RunnerCatch(exc) = "escapes"
          THEN /\ hpc' = "escaped"
               /\ UNCHANGED propagated
          ELSE /\ hpc' = "done"
               /\ propagated' = RunnerCatch(exc)
    /\ UNCHANGED <<exc, where, tb, frames, walk_passes, built, saved, save_failed, default_hook_calls>>

\* a failure escapes the main flow (hook) or a worker's target (wrapper);
\* in the wrapper the chain starts at the wrapper's own frame
Raise ==
    /\ UNCHANGED notHook
    /\ hpc = "idle"
    /\ \E e \in Failures, w \in {"hook", "wrapper"} :
          /\ (w = "wrapper") => (e.tb[1] = "engine")
          /\ exc' = e
          /\ where' = w
    /\ hpc' = "entered"
    /\ UNCHANGED <<tb, frames, walk_passes, built, saved, save_failed, default_hook_calls, propagated>>

\* exception_handler up to line 293
HookEnter ==
    /\ UNCHANGED notHook
    /\ where # "wrapper"
    /\ hpc = (IF where = "runner" THEN "escaped" ELSE "entered")
    /\ IF HookPassesThrough(exc)
          THEN /\ default_hook_calls' = Append(default_hook_calls, exc)
               /\ hpc' = "done"
               /\ UNCHANGED tb
          ELSE /\ hpc' = "build"
               /\ tb' = exc.tb
               /\ UNCHANGED default_hook_calls
    /\ UNCHANGED <<exc, where, frames, walk_passes, built, saved, save_failed, propagated>>

\* _core_dump_wrapper up to line 324
WrapperEnter ==
    /\ UNCHANGED notHook
    /\ hpc = "entered" /\ where = "wrapper"
    /\ IF WrapperCatch(exc) = "dump"
          THEN /\ hpc' = "build"
               /\ tb' = exc.tb
               /\ UNCHANGED propagated
          ELSE /\ hpc' = "done"
               /\ propagated' = "original"
               /\ UNCHANGED tb
    /\ UNCHANGED <<exc, where, frames, walk_passes, built, saved, save_failed, default_hook_calls>>

\* one pass of the while loop of create_from_exception, lines 97-153: an
\* engine frame is skipped, a file that is not utf-8 takes the continue of
\* line 114 with tb not advanced, a file that cannot be opened gets the
\* placeholder, any other gets its window
WalkRecord ==
    /\ UNCHANGED notHook
    /\ hpc = "build" /\ tb # <<>>
    /\ walk_passes < Len(exc.tb) + MaxExtraPasses
    /\ walk_passes' = walk_passes + 1
    /\ CASE Head(tb) = "engine" ->
              tb' = Tail(tb) /\ UNCHANGED frames
         [] Head(tb) = "undecodable" ->
              UNCHANGED <<tb, frames>>
         [] OTHER ->
              /\ frames' = Append(frames,
                     [frame_id |-> Len(frames),
                      code_context |-> IF Head(tb) = "missing" THEN "placeholder" ELSE "window"])
              /\ tb' = Tail(tb)
    /\ UNCHANGED <<exc, where, hpc, built, saved, save_failed, default_hook_calls, propagated>>

\* the loop ends (tb is None) and the CoreDump is returned
WalkDone ==
    /\ UNCHANGED notHook
    /\ hpc = "build" /\ tb = <<>>
    /\ built' = TRUE
    /\ hpc' = "save"
    /\ UNCHANGED <<exc, where, tb, frames, walk_passes, saved, save_failed, default_hook_calls, propagated>>

\* save_core_dump, lines 295 and 327: writes the artifact or raises; neither
\* interceptor has a handler around it
InterceptorSave(ok) ==
    /\ UNCHANGED notHook
    /\ hpc = "save"
    /\ IF ok
          THEN /\ saved' = saved + 1
               /\ hpc' = "after_save"
               /\ UNCHANGED <<save_failed, propagated>>
          ELSE /\ save_failed' = TRUE
               /\ propagated' = "persistence_failure"
               /\ hpc' = "done"
               /\ UNCHANGED saved
    /\ UNCHANGED <<exc, where, tb, frames, walk_passes, built, default_hook_calls>>

\* line 298: sys.__excepthook__(exc_type, exc_value, exc_traceback)
HookPrintOriginal ==
    /\ UNCHANGED notHook
    /\ hpc = "after_save" /\ where \in {"hook", "runner"}
    /\ default_hook_calls' = Append(default_hook_calls, exc)
    /\ hpc' = "done"
    /\ UNCHANGED <<exc, where, tb, frames, walk_passes, built, saved, save_failed, propagated>>

\* line 330: raise
WrapperReraise ==
    /\ UNCHANGED notHook
    /\ hpc = "after_save" /\ where = "wrapper"
    /\ propagated' = "original"
    /\ hpc' = "done"
    /\ UNCHANGED <<exc, where, tb, frames, walk_passes, built, saved, save_failed, default_hook_calls>>

HookNext ==
    \/ Raise
    \/ HookEnter
    \/ WrapperEnter
    \/ WalkRecord
    \/ WalkDone
    \/ \E ok \in BOOLEAN : InterceptorSave(ok)
    \/ HookPrintOriginal
    \/ WrapperReraise

\* dpdb program.py: main installs the hook and runs the program in-process
RunnerNext ==
    \/ RunProgram
    \/ RunnerHandle
    \/ HookEnter
    \/ WalkRecord
    \/ WalkDone
    \/ \E ok \in BOOLEAN : InterceptorSave(ok)
    \/ HookPrintOriginal

----------------------------------------------------------------------------
(* install_global_handler and uninstall_global_handler *)

\* the values of sys.excepthook: the interpreter's sys.__excepthook__, a
\* hook the program installed itself, and the exception_handler closure
\* the k-th install_exception_handler call made
DefaultHook == <<"sys.__excepthook__", 0>>
ProgramHook == <<"program_hook", 0>>
DpdbHook(k) == <<"exception_handler", k>>

\* the values of Process.__init__ and of _original_process_init
NoneInit == <<"None", 0>>
StockInit == <<"Process.__init__", 0>>
ProgramInit == <<"program_init", 0>>
PatchedInit == <<"_patched_process_init", 0>>

\* no Process constructed yet
NoProcess == [target_wraps |-> 0, init_by |-> "nothing"]

\* Process(target=...): the call of Process.__init__.  The patched
\* constructor wraps a target in one _WrappedTarget and calls
\* _original_process_init unless it is None; were that the patched
\* constructor again, the call would recurse until RecursionError
ConstructProcess(has_target) ==
    IF process_init # PatchedInit
        THEN [target_wraps |-> 0, init_by |-> process_init[1]]
        ELSE [target_wraps |-> IF has_target THEN 1 ELSE 0,
              init_by |-> IF original_process_init = PatchedInit THEN "RecursionError"
                          ELSE original_process_init[1]]

\* the last two operations, newest last
Logged(op) == IF Len(ops) < 2 THEN Append(ops, op) ELSE <<ops[2], op>>

\* the process before dpdb is installed: the program may already have
\* replaced the hook or the constructor
InstInit ==
    /\ excepthook \in {DefaultHook, ProgramHook}
    /\ process_init \in {StockInit, ProgramInit}
    /\ monkey_patch_installed = FALSE
    /\ original_process_init = NoneInit
    /\ installs = 0
    /\ pre_hook = excepthook
    /\ pre_init = process_init
    /\ ops = <<>>
    /\ program_assigned = FALSE
    /\ created = NoProcess

\* install_global_handler without the early return of lines 376-377
install_without_flag_check ==
    /\ UNCHANGED notInst
    /\ UNCHANGED <<program_assigned, created>>
    /\ installs < MaxInstalls
    /\ pre_hook' = excepthook
    /\ pre_init' = process_init
    /\ installs' = installs + 1
    /\ excepthook' = DpdbHook(installs + 1)
    /\ IF original_process_init = NoneInit
          THEN /\ original_process_init' = process_init
               /\ process_init' = PatchedInit
          ELSE UNCHANGED <<original_process_init, process_init>>
    /\ monkey_patch_installed' = TRUE
    /\ ops' = Logged(IF monkey_patch_installed THEN "install_noop" ELSE "install")

\* install_global_handler, lines 366-393
install_global_handler ==
    /\ UNCHANGED notInst
    /\ UNCHANGED <<program_assigned, created>>
    /\ IF monkey_patch_installed
          THEN /\ ops' = Logged("install_noop")
               /\ UNCHANGED <<excepthook, process_init, monkey_patch_installed,
                              original_process_init, installs, pre_hook, pre_init>>
          ELSE /\ installs < MaxInstalls
               /\ pre_hook' = excepthook
               /\ pre_init' = process_init
               /\ installs' = installs + 1
               /\ excepthook' = DpdbHook(installs + 1)
               /\ IF original_process_init = NoneInit
                     THEN /\ original_process_init' = process_init
                          /\ process_init' = PatchedInit
                     ELSE UNCHANGED <<original_process_init, process_init>>
               /\ monkey_patch_installed' = TRUE
               /\ ops' = Logged("install")

\* uninstall_global_handler, lines 396-414
uninstall_global_handler ==
    /\ UNCHANGED notInst
    /\ UNCHANGED <<program_assigned, created>>
    /\ IF ~monkey_patch_installed
          THEN /\ ops' = Logged("uninstall_noop")
               /\ UNCHANGED <<excepthook, process_init, monkey_patch_installed,
                              original_process_init, installs, pre_hook, pre_init>>
          ELSE /\ IF original_process_init # NoneInit
                     THEN /\ process_init' = original_process_init
                          /\ original_process_init' = NoneInit
                     ELSE UNCHANGED <<original_process_init, process_init>>
               /\ excepthook' = DefaultHook
               /\ monkey_patch_installed' = FALSE
               /\ ops' = Logged("uninstall")
               /\ UNCHANGED <<installs, pre_hook, pre_init>>

\* the program assigns sys.excepthook itself
ProgramSetsHook(h) ==
    /\ UNCHANGED notInst
    /\ excepthook # h
    /\ excepthook' = h
    /\ ops' = Logged("program")
    /\ program_assigned' = TRUE
    /\ UNCHANGED created
    /\ UNCHANGED <<process_init, monkey_patch_installed, original_process_init,
                   installs, pre_hook, pre_init>>

\* the program assigns Process.__init__ itself
ProgramSetsInit(c) ==
    /\ UNCHANGED notInst
    /\ process_init # c
    /\ process_init' = c
    /\ ops' = Logged("program")
    /\ program_assigned' = TRUE
    /\ UNCHANGED created
    /\ UNCHANGED <<excepthook, monkey_patch_installed, original_process_init,
                   installs, pre_hook, pre_init>>

\* the program constructs a Process, with or without a target
CreateProcess(has_target) ==
    /\ UNCHANGED notInst
    /\ created' = ConstructProcess(has_target)
    /\ UNCHANGED <<excepthook, process_init, monkey_patch_installed,
                   original_process_init, installs, pre_hook, pre_init, ops,
                   program_assigned>>

InstNext ==
    \/ install_global_handler
    \/ uninstall_global_handler
    \/ \E h \in {DefaultHook, ProgramHook} : ProgramSetsHook(h)
    \/ \E c \in {StockInit, ProgramInit} : ProgramSetsInit(c)
    \/ \E has_target \in BOOLEAN : CreateProcess(has_target)

----------------------------------------------------------------------------
(* Properties of the crash interceptor *)

\* the names of the termination signals
TerminationSignalNames == {"sigterm", "sigint", "sigkill"}

\* a user interruption, a deliberate termination, or a message that names
\* a termination signal
IntentionalShutdown(e) ==
    \/ IsSubclass(e.cls, "KeyboardInterrupt")
    \/ IsSubclass(e.cls, "SystemExit")
    \/ \E name \in TerminationSignalNames : InLowered(name, e.msg)

\* C35: every failure that escapes a program run in-process by the command
\* surface, other than a user interruption or a deliberate termination,
\* reaches the top-level hook and produces a snapshot, whatever its class
\* (a failure to import a module included).
C35_RunnerFailureReachesHook ==
    (where = "runner" /\ hpc = "done"
        /\ ~IsSubclass(exc.cls, "KeyboardInterrupt")
        /\ ~IsSubclass(exc.cls, "SystemExit"))
    => (built /\ default_hook_calls = <<exc>>)

\* the failure left the interceptor as it came in
PassedOnUnmodified ==
    IF where = "hook" THEN default_hook_calls = <<exc>> /\ propagated = "none"
    ELSE propagated = "original"

\* C6: a failure that is a user interruption or a deliberate termination
\* (any subclass included), or whose message names a termination signal,
\* never makes the hook or the wrapper build or save a snapshot; it is
\* passed on unmodified.
C6_ShutdownNeverDumps ==
    (hpc # "idle" /\ IntentionalShutdown(exc)) =>
        /\ hpc \notin {"build", "save", "after_save"}
        /\ ~built /\ saved = 0 /\ ~save_failed
        /\ hpc = "done" => PassedOnUnmodified

\* C7: every other uncaught failure makes the top-level hook build a
\* snapshot and save it, and only after that the unchanged failure is
\* handed to the default hook, exactly once.
C7_HookDumpsThenPrintsOnce ==
    (hpc # "idle" /\ where = "hook" /\ ~IntentionalShutdown(exc)) =>
        /\ default_hook_calls # <<>> => (built /\ saved = 1)
        /\ hpc = "done" => (built /\ saved = 1 /\ default_hook_calls = <<exc>>)

\* C8: when the snapshot write fails inside the interceptor, the original
\* failure is still the one propagated: the hook hands it to the default
\* hook and the wrapper raises it, not the persistence failure.
C8_OriginalPropagatedWhenSaveFails ==
    (hpc = "done" /\ save_failed) =>
        IF where = "hook" THEN default_hook_calls = <<exc>>
        ELSE propagated = "original"

\* C9: for every failure the wrapper saves a snapshot exactly when the
\* top-level hook would.
C9_WrapperPolicyIsHookPolicy ==
    hpc # "idle" => ((WrapperCatch(exc) = "dump") <=> ~HookPassesThrough(exc))

\* C12: capture from a failure terminates and returns a snapshot: every
\* pass of the walk advances past one record of the chain, a record whose
\* file is not utf-8 included, so the walk is over after as many passes as
\* the chain has records, and the snapshot returned holds a frame for
\* every record that is not an engine frame.
C12_WalkAdvancesPastEveryRecord ==
    /\ hpc = "build" => walk_passes = Len(exc.tb) - Len(tb)
    /\ built => Len(frames) = Cardinality({k \in 1..Len(exc.tb) : exc.tb[k] # "engine"})

----------------------------------------------------------------------------
(* Properties of install and uninstall *)

\* C10: after install_global_handler followed by uninstall_global_handler,
\* the top-level hook and the Process constructor are exactly the ones in
\* place before the install.
C10_UninstallRestores ==
    ops = <<"install", "uninstall">> =>
        (excepthook = pre_hook /\ process_init = pre_init)

\* what install and uninstall act on
Installation == <<excepthook, process_init, monkey_patch_installed, original_process_init>>

\* C11: in a sequence of install_global_handler and uninstall_global_handler
\* calls (the program assigning neither the hook nor the constructor
\* itself), an install while installed and an uninstall while not installed
\* change nothing; the Process constructor is the patched one exactly when
\* the installed flag is set; the saved original constructor is never the
\* patched one; so a constructed Process has its target wrapped at most
\* once and the patched constructor never calls itself.
C11_InstallUninstallIdempotent ==
    /\ [](~program_assigned =>
            /\ (process_init = PatchedInit) <=> monkey_patch_installed
            /\ original_process_init # PatchedInit
            /\ created.target_wraps <= 1
            /\ created.init_by # "RecursionError")
    /\ [][~program_assigned =>
            /\ (monkey_patch_installed /\ install_global_handler)
                  => UNCHANGED Installation
            /\ (~monkey_patch_installed /\ uninstall_global_handler)
                  => UNCHANGED Installation]_vars

\* install, install again, then a Process with a target is constructed
C11_Witness ==
    /\ ~program_assigned
    /\ ops = <<"install", "install_noop">>
    /\ monkey_patch_installed
    /\ created.target_wraps = 1 /\ created.init_by = pre_init[1]

----------------------------------------------------------------------------
(* The sanitizer: _serialize_object and _clean_dict *)

\* a value, by what inspecting and test-serializing it does:
\*   callable   callable(obj)
\*   name, file "present", "absent", or the class hasattr(obj, "__name__") /
\*              hasattr(obj, "__file__") raises (hasattr only absorbs
\*              AttributeError)
\*   pickle     "ok" or the class pickle.dumps(obj) raises
\*   dict       hasattr(obj, "__dict__")
\*   repr       "ok" or the class repr(obj) raises
Value(tag, c, n, f, p, d, r) ==
    [tag |-> tag, callable |-> c, name |-> n, file |-> f, pickle |-> p,
     dict |-> d, repr |-> r]

\* the values tried; what a value's own methods raise derives from Exception
ValueKinds ==
    { Value("int", FALSE, "absent", "absent", "ok", FALSE, "ok"),
      Value("function", TRUE, "present", "absent", "PicklingError", TRUE, "ok"),
      Value("module", FALSE, "present", "present", "TypeError", TRUE, "ok"),
      Value("partial", TRUE, "absent", "absent", "ok", TRUE, "ok"),
      Value("lock", FALSE, "absent", "absent", "TypeError", FALSE, "ok"),
      Value("local_object", FALSE, "absent", "absent", "AttributeError", TRUE, "ok"),
      Value("bad_repr", FALSE, "absent", "absent", "TypeError", FALSE, "ZeroDivisionError"),
      Value("bad_reduce", FALSE, "absent", "absent", "RuntimeError", TRUE, "ok"),
      Value("bad_getattr", FALSE, "absent", "RuntimeError", "ok", TRUE, "ok"),
      Value("bad_name", TRUE, "RuntimeError", "absent", "ok", TRUE, "ok") }

\* the strings the sanitizer puts in place of a value
Descriptor(kind, v) == [descriptor |-> kind, of |-> v.tag]
IsDescriptor(x) == "descriptor" \in DOMAIN x

Returns(x) == [raised |-> "none", value |-> x]
Raises(c) == [raised |-> c, value |-> <<>>]

\* _serialize_object, lines 52-76
SerializeObject(obj) ==
    IF obj.callable /\ obj.name \notin {"present", "absent"} THEN Raises(obj.name)
    ELSE IF obj.callable /\ obj.name = "present" THEN Returns(Descriptor("function", obj))
    ELSE IF obj.file \notin {"present", "absent"} THEN Raises(obj.file)
    ELSE IF obj.file = "present" /\ obj.name \notin {"present", "absent"} THEN Raises(obj.name)
    ELSE IF obj.file = "present" /\ obj.name = "present" THEN Returns(Descriptor("module", obj))
    ELSE IF obj.pickle = "ok" THEN Returns(obj)
    ELSE IF obj.pickle \in {"TypeError", "PicklingError", "AttributeError"}
        THEN IF obj.dict THEN Returns(Descriptor("object", obj))
             ELSE IF obj.repr = "ok" THEN Returns(Descriptor("repr", obj))
             ELSE IF IsSubclass(obj.repr, "Exception") THEN Returns(Descriptor("unprintable", obj))
             ELSE Raises(obj.repr)
    ELSE Raises(obj.pickle)

\* the body of the for loop of _clean_dict without its handler
clean_value_unhandled(value) == SerializeObject(value)

\* the body of the for loop of _clean_dict, lines 83-86
clean_value(value) ==
    LET r == SerializeObject(value)
    IN  IF r.raised = "none" THEN r
        ELSE IF IsSubclass(r.raised, "Exception")
            THEN Returns(Descriptor("failed_to_serialize", value))
        ELSE r

\* _clean_dict that stores nothing for a value that failed
clean_dict_dropping(d) ==
    LET kept == SelectSeq(d, LAMBDA e : SerializeObject(e.value).raised = "none")
    IN  [raised |-> "none",
         out |-> [i \in 1..Len(kept) |->
                    [key |-> kept[i].key, value |-> SerializeObject(kept[i].value).value]]]

\* _clean_dict, lines 79-87: the bindings in order, up to the first one
\* whose failure leaves the loop
clean_dict(d) ==
    LET r == [i \in 1..Len(d) |-> clean_value(d[i].value)]
        bad == {i \in 1..Len(d) : r[i].raised # "none"}
    IN  IF bad = {}
           THEN [raised |-> "none",
                 out |-> [i \in 1..Len(d) |-> [key |-> d[i].key, value |-> r[i].value]]]
           ELSE [raised |-> r[CHOOSE i \in bad : \A j \in bad : i <= j].raised,
                 out |-> <<>>]

\* the names bound and the mappings tried: at most MaxBindings bindings,
\* no name twice
BindingNames == {"a", "b", "c"}
BindingMaps ==
    UNION {{d \in [1..n -> [key : BindingNames, value : ValueKinds]] :
               \A i, j \in 1..n : i # j => d[i].key # d[j].key} : n \in 0..MaxBindings}

SanInit ==
    /\ binding_map \in BindingMaps
    /\ cleaned = <<>>
    /\ san = "ready"

\* _clean_dict(d) is called
CleanDictCall ==
    /\ UNCHANGED notSan
    /\ san = "ready"
    /\ LET r == clean_dict(binding_map)
       IN  /\ cleaned' = r.out
           /\ san' = IF r.raised = "none" THEN "returned" ELSE r.raised
    /\ UNCHANGED binding_map

SanNext == CleanDictCall

----------------------------------------------------------------------------
(* Properties of the sanitizer *)

KeysOf(d) == [i \in 1..Len(d) |-> d[i].key]

\* the mapping without its j-th binding
WithoutBinding(d, j) == SubSeq(d, 1, j - 1) \o SubSeq(d, j + 1, Len(d))

----------------------------------------------------------------------------
(* Capture: CoreDumpGenerator.create_from_exception and                    *)
(* create_from_current_stack walking one call chain (core_dump.py)         *)

\* calls of the program in one chain
MaxDepth == 2
\* lines of a source file
MaxLines == 8

Max(a, b) == IF a >= b THEN a ELSE b
Min(a, b) == IF a <= b THEN a ELSE b

\* s[a:b] of a Python list, for 0 <= a and 0 <= b <= len(s)
PySlice(s, a, b) == SubSeq(s, a + 1, b)

\* f.readlines(): line k of a file is written k (rstrip keeps its identity)
FileLines(n) == [k \in 1..n |-> k]

\* A file name is its path cut before its last twelve characters, so that
\* str.endswith("core_dump.py") compares the last piece.
EngineFile == <<"dpdb/", "core_dump.py">>
DumpFile == <<"dpdb/__init__.py">>
UserFiles == {<<"app.py">>, <<"tests/my_", "core_dump.py">>}

EndsWithCoreDumpPy(filename) == filename[Len(filename)] = "core_dump.py"

\* whether open() and decoding of the file succeed
SourceStates == {"ok", "undecodable", "missing"}

\* the current lines a record of the chain can stand at
CaptureLines == {1, MaxLines}

\* The activation records of a chain, oldest call first.  A function is
\* named by the level of its call, so a record is known by its function_name.
UserRecords == [filename : UserFiles, source : SourceStates, lineno : CaptureLines]

EngineRecord(filename) == [filename |-> filename, source |-> "ok", lineno |-> 1]

Named(chain) ==
    [i \in 1..Len(chain) |->
        [filename      |-> chain[i].filename,
         function_name |-> i,
         source        |-> chain[i].source,
         lineno        |-> chain[i].lineno,
         lines         |-> MaxLines]]

UserChains == UNION {[1..n -> UserRecords] : n \in 1..MaxDepth}

\* How the capture is entered: from sys.excepthook ("hook"), from
\* _core_dump_wrapper ("wrapper": the chain starts in core_dump.py), from a
\* program calling create_from_current_stack ("direct") or through
\* dpdb.dump ("dump"); the manual chains end in the engine's own records.
Entries == {"hook", "wrapper", "direct", "dump"}

FromException(e) == e \in {"hook", "wrapper"}

StacksOf(e) ==
    {Named(CASE e = "hook"    -> u
             [] e = "wrapper" -> <<EngineRecord(EngineFile)>> \o u
             [] e = "direct"  -> u \o <<EngineRecord(EngineFile)>>
             [] e = "dump"    -> u \o <<EngineRecord(DumpFile), EngineRecord(EngineFile)>>)
        : u \in UserChains}

\* lines 122-128 and 212-218: the window around the current line
context_starting_a_line_late(lines, lineno) ==
    LET context_start == Max(0, lineno - 3)
        context_end   == Min(Len(lines), lineno + 3)
    IN  [code_context       |-> PySlice(lines, context_start, context_end),
         context_start_line |-> context_start + 1]

Context(lines, lineno) ==
    LET context_start == Max(0, lineno - 4)
        context_end   == Min(Len(lines), lineno + 3)
    IN  [code_context       |-> PySlice(lines, context_start, context_end),
         context_start_line |-> context_start + 1]

\* lines 129-131 and 219-221: open() raised OSError
source_not_available_default_start(lineno) ==
    [code_context |-> <<"<source not available>">>, context_start_line |-> 0]

SourceNotAvailable(lineno) ==
    [code_context |-> <<"<source not available>">>, context_start_line |-> lineno]

FrameInfo(rec, ctx, id) ==
    [filename           |-> rec.filename,
     function_name      |-> rec.function_name,
     line_number        |-> rec.lineno,
     code_context       |-> ctx.code_context,
     context_start_line |-> ctx.context_start_line,
     frame_id           |-> id]

\* the names of os.environ, cut after their first character
EnvNames == {<<"H", "OME">>, <<"_">>, <<"_", "_name__">>, <<"_", "_file__">>}

StartsWithUnderscore(k) == k[1] = "_"

NoSnapshot == [made |-> FALSE]

NoFile == [written |-> FALSE, raised |-> FALSE]

CaptureInit ==
    /\ entry \in Entries
    /\ stack \in StacksOf(entry)
    /\ current_frame = IF FromException(entry) THEN 1 ELSE Len(stack) - 1
    /\ cap_frames = <<>>
    /\ frame_id = 0
    /\ environ = {}
    /\ snapshot = NoSnapshot
    /\ artifact = NoFile
    /\ loaded = NoSnapshot

\* tb.tb_next
TbNext(i) == IF i = Len(stack) THEN 0 ELSE i + 1

\* frame.f_back
FBack(i) == i - 1

\* one pass of the while loop of create_from_exception (lines 97-153)
WalkTraceback ==
    /\ FromException(entry) /\ snapshot = NoSnapshot /\ current_frame # 0
    /\ LET rec == stack[current_frame] IN
          IF EndsWithCoreDumpPy(rec.filename)
          THEN /\ current_frame' = TbNext(current_frame)
               /\ UNCHANGED <<cap_frames, frame_id>>
          ELSE IF rec.source = "undecodable"
          THEN \* line 114: continue, tb is not advanced
               UNCHANGED <<current_frame, cap_frames, frame_id>>
          ELSE /\ cap_frames' = Append(cap_frames,
                      FrameInfo(rec,
                                IF rec.source = "missing"
                                THEN SourceNotAvailable(rec.lineno)
                                ELSE Context(FileLines(rec.lines), rec.lineno),
                                frame_id))
               /\ current_frame' = TbNext(current_frame)
               /\ frame_id' = frame_id + 1
    /\ UNCHANGED <<entry, stack, environ, snapshot, artifact, loaded>>
    /\ UNCHANGED notCap

\* the return of create_from_exception (lines 155-173)
BuildFromException ==
    /\ FromException(entry) /\ snapshot = NoSnapshot /\ current_frame = 0
    /\ \E env \in SUBSET EnvNames :
          /\ environ' = env
          /\ snapshot' =
                [made             |-> TRUE,
                 exception_info   |-> "ZeroDivisionError",
                 traceback_text   |-> "Traceback (most recent call last)",
                 frames           |-> cap_frames,
                 current_frame_id |-> IF cap_frames # <<>> THEN Len(cap_frames) - 1 ELSE 0,
                 environment_vars |-> {k \in env : ~StartsWithUnderscore(k)}]
    /\ UNCHANGED <<entry, stack, current_frame, cap_frames, frame_id, artifact, loaded>>
    /\ UNCHANGED notCap

\* one pass of the while loop of create_from_current_stack (lines 187-243)
WalkStack ==
    /\ ~FromException(entry) /\ snapshot = NoSnapshot /\ current_frame # 0
    /\ LET rec == stack[current_frame] IN
          IF EndsWithCoreDumpPy(rec.filename)
          THEN /\ current_frame' = FBack(current_frame)
               /\ UNCHANGED <<cap_frames, frame_id>>
          ELSE /\ cap_frames' = Append(cap_frames,
                      FrameInfo(rec,
                                IF rec.source = "missing"
                                THEN SourceNotAvailable(rec.lineno)
                                ELSE \* latin-1 decodes every file
                                     Context(FileLines(rec.lines), rec.lineno),
                                frame_id))
               /\ current_frame' = FBack(current_frame)
               /\ frame_id' = frame_id + 1
    /\ UNCHANGED <<entry, stack, environ, snapshot, artifact, loaded>>
    /\ UNCHANGED notCap

\* the return of create_from_current_stack (lines 245-254)
BuildFromStack ==
    /\ ~FromException(entry) /\ snapshot = NoSnapshot /\ current_frame = 0
    /\ snapshot' =
          [made             |-> TRUE,
           exception_info   |-> "None",
           traceback_text   |-> "<Manual core dump - no exception>",
           frames           |-> cap_frames,
           current_frame_id |-> 0,
           environment_vars |-> {}]
    /\ UNCHANGED <<entry, stack, current_frame, cap_frames, frame_id, environ,
                   artifact, loaded>>
    /\ UNCHANGED notCap

\* pickle.dump: the object graph as a stream, each list behind its length
PickleFrame(f) ==
    <<f.filename, f.function_name, f.line_number, f.context_start_line, f.frame_id,
      Len(f.code_context)>> \o f.code_context

RECURSIVE PickleFrames(_)
PickleFrames(fs) ==
    IF Len(fs) = 0 THEN <<>> ELSE PickleFrame(Head(fs)) \o PickleFrames(Tail(fs))

pickle_dropping_focus(s) ==
    <<s.exception_info, s.traceback_text, 0, s.environment_vars,
      Len(s.frames)>> \o PickleFrames(s.frames)

Pickle(s) ==
    <<s.exception_info, s.traceback_text, s.current_frame_id, s.environment_vars,
      Len(s.frames)>> \o PickleFrames(s.frames)

\* pickle.load: n frames read off the front of the stream
RECURSIVE UnpickleFrames(_, _)
UnpickleFrames(ts, n) ==
    IF n = 0
    THEN <<>>
    ELSE LET m == ts[6] IN
         <<[filename           |-> ts[1],
            function_name      |-> ts[2],
            line_number        |-> ts[3],
            code_context       |-> SubSeq(ts, 7, 6 + m),
            context_start_line |-> ts[4],
            frame_id           |-> ts[5]]>>
         \o UnpickleFrames(SubSeq(ts, 7 + m, Len(ts)), n - 1)

Unpickle(ts) ==
    [made             |-> TRUE,
     exception_info   |-> ts[1],
     traceback_text   |-> ts[2],
     frames           |-> UnpickleFrames(SubSeq(ts, 6, Len(ts)), ts[5]),
     current_frame_id |-> ts[3],
     environment_vars |-> ts[4]]

\* save_core_dump (lines 257-261): open() may raise, else the pickle is written
save_core_dump(ok) ==
    /\ snapshot.made /\ artifact = NoFile
    /\ artifact' = IF ok THEN [written |-> TRUE, bytes |-> Pickle(snapshot)]
                         ELSE [written |-> FALSE, raised |-> TRUE]
    /\ UNCHANGED <<entry, stack, current_frame, cap_frames, frame_id, environ,
                   snapshot, loaded>>
    /\ UNCHANGED notCap

SaveCoreDump == \E ok \in BOOLEAN : save_core_dump(ok)

\* load_core_dump (lines 264-267)
LoadCoreDump ==
    /\ artifact.written /\ ~loaded.made
    /\ loaded' = Unpickle(artifact.bytes)
    /\ UNCHANGED <<entry, stack, current_frame, cap_frames, frame_id, environ,
                   snapshot, artifact>>
    /\ UNCHANGED notCap

CaptureNext ==
    \/ WalkTraceback \/ BuildFromException \/ WalkStack \/ BuildFromStack
    \/ SaveCoreDump \/ LoadCoreDump

\* the records of the chain that belong to the program
UserLevels == {i \in 1..Len(stack) : stack[i].filename \in UserFiles}

\* the records a snapshot's frames were taken from
CapturedLevels == {snapshot.frames[i].function_name : i \in 1..Len(snapshot.frames)}

\* the lines first..last of a file
LinesFrom(first, last) == [k \in 1..(last - first + 1) |-> first + k - 1]

\* C21: in every snapshot the frame ids are 0..N-1 and equal the frame's
\* position, a frame with a lower id is an older call than a frame with a
\* higher id, and no frame is older than frame 0.
C21_FrameIdsFollowCallOrder ==
    snapshot.made =>
        LET fs == snapshot.frames IN
        /\ \A i \in 1..Len(fs) : fs[i].frame_id = i - 1
        /\ \A i, j \in 1..Len(fs) :
              fs[i].frame_id < fs[j].frame_id => fs[i].function_name < fs[j].function_name
        /\ \A j \in 1..Len(fs) : fs[1].function_name <= fs[j].function_name

\* C22: the frames of a snapshot are taken from exactly the activation
\* records of the program: none from the capture engine, none left out.
C22_ExactlyTheUserFrames ==
    snapshot.made => CapturedLevels = UserLevels

AllowListed == {<<"_", "_name__">>, <<"_", "_file__">>}

\* C25: the environment mapping of a failure snapshot holds a variable exactly
\* when its name does not start with the private prefix or is allow-listed.
C25_EnvironmentFilter ==
    (snapshot.made /\ FromException(entry)) =>
        snapshot.environment_vars =
            {k \in environ : ~StartsWithUnderscore(k) \/ k \in AllowListed}

----------------------------------------------------------------------------
(* The window of one frame and the row do_frames prints for it             *)

NoContext == [code_context |-> <<>>, context_start_line |-> 0]

WindowInit ==
    /\ all_lines \in {FileLines(n) : n \in 0..MaxLines}
    /\ current_line \in 1..(MaxLines + 1)
    /\ context = NoContext
    /\ code_line = <<>>
    /\ wpc = "read"

\* lines 122-128 of create_from_exception, 212-218 of create_from_current_stack
ReadContext ==
    /\ wpc = "read"
    /\ context' = Context(all_lines, current_line)
    /\ wpc' = "captured"
    /\ UNCHANGED <<all_lines, current_line, code_line>>
    /\ UNCHANGED notWin

\* do_frames, lines 394-399: the executing line of the frame, or none
FramesRow ==
    /\ wpc = "captured"
    /\ LET context_line_idx == current_line - context.context_start_line IN
          code_line' =
              IF /\ Len(context.code_context) > 0
                 /\ 0 <= context_line_idx
                 /\ context_line_idx < Len(context.code_context)
              THEN <<context.code_context[context_line_idx + 1]>>
              ELSE <<>>
    /\ wpc' = "listed"
    /\ UNCHANGED <<all_lines, current_line, context>>
    /\ UNCHANGED notWin

WindowNext == ReadContext \/ FramesRow

\* C23: for a readable file of L lines and a current line c with 1 <= c <= L
\* the window is exactly lines max(1, c-3) .. min(L, c+3), the window start is
\* max(1, c-3), entry k is line (window start + k), and the current line sits
\* at offset c - window start, where do_frames finds it.
C23_WindowAroundCurrentLine ==
    (wpc # "read" /\ 1 <= current_line /\ current_line <= Len(all_lines)) =>
        LET c     == current_line
            first == Max(1, c - 3)
            last  == Min(Len(all_lines), c + 3)
            cc    == context.code_context
        IN  /\ cc = LinesFrom(first, last)
            /\ context.context_start_line = first
            /\ \A k \in 0..(Len(cc) - 1) : cc[k + 1] = all_lines[context.context_start_line + k]
            /\ cc[c - context.context_start_line + 1] = all_lines[c]
            /\ wpc = "listed" => code_line = <<all_lines[c]>>

\* a window clipped at neither end, listed by do_frames
C23_Witness ==
    /\ wpc = "listed"
    /\ Len(all_lines) = MaxLines
    /\ current_line = 4
    /\ Len(context.code_context) = 7
    /\ code_line = <<4>>

----------------------------------------------------------------------------
(* The prompt: cmd.Cmd.onecmd and emptyline as PostMortemDebugger inherits *)
(* them, and _execute_code step by step (interface.py)                     *)

\* elements of the list the typed code appends to
MaxItems == 3

\* what typed code can raise after its side effect
Raisable == {"none", "SyntaxError", "ZeroDivisionError", "SystemExit"}

Line(kind, parses, effect, raises) ==
    [kind |-> kind, parses |-> parses, effect |-> effect, raises |-> raises]

\* the empty line, which is also the initial lastcmd of cmd.Cmd
EmptyLine == Line("empty", "neither", FALSE, "none")

\* up, down and display x
CommandLines == {Line(k, "neither", FALSE, "none") : k \in {"up", "down", "display"}}

\* Python text: whether it compiles in "eval" mode ("expression"), only in
\* "exec" mode ("statement") or in neither; whether running it appends to
\* the list lst of the current frame; and what it raises after that
CodeLines ==
    {Line("code", p, e, r) : p \in {"expression", "statement"}, e \in BOOLEAN, r \in Raisable}
    \cup {Line("code", "neither", FALSE, "none")}

Lines == {EmptyLine} \cup CommandLines \cup CodeLines

PromptInit ==
    /\ lastcmd = EmptyLine
    /\ typed = EmptyLine
    /\ ppc = "prompt"
    /\ focus = MaxFrames - 1
    /\ items = 0
    /\ displayed = <<>>
    /\ before = [focus |-> MaxFrames - 1, items |-> 0, displayed |-> <<>>]
    /\ outcome = "intro"

\* the handler cmd.Cmd.onecmd calls for a line; typed code goes to default
\* and from there to _execute_code
Dispatch(cmd) ==
    CASE cmd.kind = "empty" ->
           /\ outcome' = "nothing"
           /\ UNCHANGED <<focus, items, displayed, ppc>>
      [] cmd.kind = "up" ->
           /\ IF focus - 1 < 0
                 THEN outcome' = "oldest_frame" /\ UNCHANGED focus
                 ELSE outcome' = "frame_shown" /\ focus' = focus - 1
           /\ UNCHANGED <<items, displayed, ppc>>
      [] cmd.kind = "down" ->
           /\ IF focus + 1 >= MaxFrames
                 THEN outcome' = "newest_frame" /\ UNCHANGED focus
                 ELSE outcome' = "frame_shown" /\ focus' = focus + 1
           /\ UNCHANGED <<items, displayed, ppc>>
      [] cmd.kind = "display" ->
           /\ Len(displayed) < MaxDisplay
           /\ displayed' = Append(displayed, "x")
           /\ outcome' = "ok"
           /\ UNCHANGED <<focus, items, ppc>>
      [] cmd.kind = "code" ->
           /\ cmd.effect => items + 2 <= MaxItems
           /\ ppc' = "eval"
           /\ outcome' = "running"
           /\ UNCHANGED <<focus, items, displayed>>

\* cmd.Cmd.onecmd(line): an empty line goes to emptyline, which is not
\* overridden and runs onecmd(self.lastcmd) when there is one; any other
\* line becomes lastcmd and is dispatched
OneCmd(l) ==
    /\ ppc = "prompt"
    /\ typed' = l
    /\ before' = [focus |-> focus, items |-> items, displayed |-> displayed]
    /\ LET cmd == IF l = EmptyLine THEN lastcmd ELSE l IN
          /\ lastcmd' = cmd
          /\ Dispatch(cmd)
    /\ UNCHANGED notPrompt

\* what eval or exec of the compiled text does: the side effect, then the
\* failure; default catches Exception, anything else leaves cmdloop
RunTyped(cmd, caught) ==
    /\ items' = IF cmd.effect THEN items + 1 ELSE items
    /\ IF cmd.raises \in caught
          THEN ppc' = "exec" /\ outcome' = "running"
          ELSE IF cmd.raises = "none"
          THEN ppc' = "prompt" /\ outcome' = "ok"
          ELSE IF cmd.raises = "SystemExit"
          THEN ppc' = "left" /\ outcome' = "SystemExit"
          ELSE ppc' = "prompt" /\ outcome' = "error_reported"

\* _execute_code, lines 278-283 and 284: compile(code, "<debugger>", "eval")
\* and eval(compiled, namespace), both inside the try of except SyntaxError
TryExpression ==
    /\ ppc = "eval"
    /\ IF lastcmd.parses # "expression"
          THEN ppc' = "exec" /\ outcome' = "running" /\ UNCHANGED items
          ELSE RunTyped(lastcmd, {"SyntaxError"})
    /\ UNCHANGED <<lastcmd, typed, focus, displayed, before>>
    /\ UNCHANGED notPrompt

\* _execute_code, lines 285-292: compile(code, "<debugger>", "exec") and
\* exec(compiled, namespace); an expression is a statement too
FallbackStatement ==
    /\ ppc = "exec"
    /\ IF lastcmd.parses = "neither"
          THEN ppc' = "prompt" /\ outcome' = "error_reported" /\ UNCHANGED items
          ELSE RunTyped(lastcmd, {})
    /\ UNCHANGED <<lastcmd, typed, focus, displayed, before>>
    /\ UNCHANGED notPrompt

ReadLine == \E l \in Lines : OneCmd(l)

PromptNext == ReadLine \/ TryExpression \/ FallbackStatement

\* C34: the statement run follows the expression attempt only when the input
\* failed to parse as an expression; a failure raised while a parsed
\* expression is evaluated is not followed by a statement run.
C34_FallbackOnlyOnParseFailure ==
    [][(ppc = "eval" /\ ppc' = "exec") => lastcmd.parses # "expression"]_vars

\* C37: an empty input line leaves the current frame index, the namespace of
\* the current frame and the display list as they were when it was read.
C37_EmptyLineIsNoOp ==
    typed = EmptyLine =>
        /\ focus = before.focus
        /\ items = before.items
        /\ displayed = before.displayed

\* C38: one command applies the side effect of the typed code to the
\* namespace at most once.
C38_CodeRunsAtMostOnce ==
    items <= before.items + 1

----------------------------------------------------------------------------
(* Worker processes: _patched_process_init names the wrapper of each       *)
(* target, _core_dump_wrapper writes <process_name>_crash.pkl (core_dump.py) *)

\* Process objects constructed
MaxWorkers == 2

\* the target functions of the program ("None": no target given) and the
\* names a caller supplies ("None": no name given)
Targets == {"None", "work", "other"}
Names == {"None", "w", "v"}

\* line 357: name or f"Process-{id(target)}"; id() is the identity of the
\* target function, the same for every Process made with that function
ProcessName(target, name) ==
    IF name # "None" THEN <<name>> ELSE <<"Process-", target>>

\* line 325: f"{process_name}_crash.pkl"
DumpFilename(process_name) == Append(process_name, "_crash.pkl")

WorkInit ==
    /\ processes = <<>>
    /\ crash_files = {}

\* Process(target=..., name=...): a target is wrapped in a _WrappedTarget
\* that carries the process name
patched_process_init(target, name) ==
    /\ UNCHANGED notWork
    /\ Len(processes) < MaxWorkers
    /\ processes' = Append(processes,
           [target |-> target, name |-> name, state |-> "created",
            wrapped |-> target # "None",
            process_name |-> IF target # "None" THEN ProcessName(target, name)
                             ELSE <<>>])
    /\ UNCHANGED crash_files

\* Process.start()
StartWorker(i) ==
    /\ UNCHANGED notWork
    /\ i <= Len(processes)
    /\ processes[i].state = "created"
    /\ processes' = [processes EXCEPT ![i].state = "running"]
    /\ UNCHANGED crash_files

\* the target returns
WorkerReturns(i) ==
    /\ UNCHANGED notWork
    /\ i <= Len(processes)
    /\ processes[i].state = "running"
    /\ processes' = [processes EXCEPT ![i].state = "exited"]
    /\ UNCHANGED crash_files

\* the target raises: _core_dump_wrapper builds the snapshot and
\* save_core_dump opens the file "wb", which replaces what the file held;
\* a Process without a target has no wrapper
WorkerCrashes(i) ==
    /\ UNCHANGED notWork
    /\ i <= Len(processes)
    /\ processes[i].state = "running"
    /\ processes' = [processes EXCEPT ![i].state = "crashed"]
    /\ IF processes[i].wrapped
          THEN crash_files' =
                  {r \in crash_files : r.file # DumpFilename(processes[i].process_name)}
                  \cup {[file |-> DumpFilename(processes[i].process_name), by |-> i]}
          ELSE UNCHANGED crash_files

WorkNext ==
    \/ \E target \in Targets, name \in Names : patched_process_init(target, name)
    \/ \E i \in 1..MaxWorkers : StartWorker(i)
    \/ \E i \in 1..MaxWorkers : WorkerReturns(i)
    \/ \E i \in 1..MaxWorkers : WorkerCrashes(i)

\* C39: two distinct worker processes that crash never write to the same
\* artifact file: the snapshot of each crashed worker is still in its own
\* artifact, also when the workers were created without a name or with
\* equal names.
C39_CrashArtifactsDistinct ==
    \A i \in 1..Len(processes) :
        (processes[i].state = "crashed" /\ processes[i].wrapped)
        => [file |-> DumpFilename(processes[i].process_name), by |-> i] \in crash_files

----------------------------------------------------------------------------
(* Specifications *)

\* the replay session at rest
SessIdle ==
    /\ core_dump = CapturedDump(0, "manual") /\ heap = <<>> /\ heap0 = <<>>
    /\ current_frame_index = 0 /\ frame_namespaces = <<>> /\ display_list = <<>>
    /\ sess = "closed" /\ report = "none" /\ table = <<>>

InstIdle ==
    /\ excepthook = DefaultHook /\ process_init = StockInit
    /\ monkey_patch_installed = FALSE /\ original_process_init = NoneInit
    /\ installs = 0 /\ pre_hook = DefaultHook /\ pre_init = StockInit /\ ops = <<>>
    /\ program_assigned = FALSE /\ created = NoProcess

SanIdle == binding_map = <<>> /\ cleaned = <<>> /\ san = "off"

CapIdle ==
    /\ entry = "none" /\ stack = <<>> /\ current_frame = 0 /\ cap_frames = <<>>
    /\ frame_id = 0 /\ environ = {} /\ snapshot = NoSnapshot
    /\ artifact = NoFile /\ loaded = NoSnapshot

WinIdle ==
    /\ all_lines = <<>> /\ current_line = 0 /\ context = NoContext
    /\ code_line = <<>> /\ wpc = "off"

PromptIdle ==
    /\ lastcmd = EmptyLine /\ typed = EmptyLine /\ ppc = "off" /\ focus = 0
    /\ items = 0 /\ displayed = <<>> /\ outcome = "none"
    /\ before = [focus |-> 0, items |-> 0, displayed |-> <<>>]

WorkIdle == processes = <<>> /\ crash_files = {}

InitSession == WorkIdle /\ SessInit /\ GuardIdle /\ HookIdle /\ InstIdle /\ SanIdle /\
    CapIdle /\ WinIdle /\ PromptIdle
SpecSession == InitSession /\ [][SessNext]_vars

InitGuard == WorkIdle /\ GuardInit /\ SessIdle /\ HookIdle /\ InstIdle /\ SanIdle /\
    CapIdle /\ WinIdle /\ PromptIdle
SpecGuard == InitGuard /\ [][GuardNext]_vars

InitHook == WorkIdle /\ HookInit /\ SessIdle /\ GuardIdle /\ InstIdle /\ SanIdle /\
    CapIdle /\ WinIdle /\ PromptIdle
SpecHook == InitHook /\ [][HookNext]_vars

SpecRunner == InitHook /\ [][RunnerNext]_vars

InitInstall == WorkIdle /\ InstInit /\ SessIdle /\ GuardIdle /\ HookIdle /\ SanIdle /\
    CapIdle /\ WinIdle /\ PromptIdle
SpecInstall == InitInstall /\ [][InstNext]_vars

InitSanitize == WorkIdle /\ SanInit /\ SessIdle /\ GuardIdle /\ HookIdle /\ InstIdle /\
    CapIdle /\ WinIdle /\ PromptIdle
SpecSanitize == InitSanitize /\ [][SanNext]_vars

InitCapture == WorkIdle /\ CaptureInit /\ SessIdle /\ GuardIdle /\ HookIdle /\ InstIdle /\ SanIdle /\
    WinIdle /\ PromptIdle
SpecCapture == InitCapture /\ [][CaptureNext]_vars

InitWindow == WorkIdle /\ WindowInit /\ SessIdle /\ GuardIdle /\ HookIdle /\ InstIdle /\ SanIdle /\
    CapIdle /\ PromptIdle
SpecWindow == InitWindow /\ [][WindowNext]_vars

InitPrompt == WorkIdle /\ PromptInit /\ SessIdle /\ GuardIdle /\ HookIdle /\ InstIdle /\ SanIdle /\
    CapIdle /\ WinIdle
SpecPrompt == InitPrompt /\ [][PromptNext]_vars

InitWorkers == WorkInit /\ SessIdle /\ GuardIdle /\ HookIdle /\ InstIdle /\ SanIdle /\
    CapIdle /\ WinIdle /\ PromptIdle
SpecWorkers == InitWorkers /\ [][WorkNext]_vars

====
